---- MODULE Spec2Model ----
(***************************************************************************)
(* The conversational expense assistant of WalletWise-backend              *)
(* (src/controllers/chatbotController.js): one turn of interactWithChatbot *)
(* split at its await points, the Groq gateway with its retry loop, the    *)
(* Firestore "expenses" collection and the in-memory conversationCache;    *)
(* and the periods and the category comparison of getAnalytics             *)
(* (src/controllers/analyticsController.js).                               *)
(*                                                                         *)
(* JavaScript strings that the code searches (includes, match, trim,       *)
(* toLowerCase) are sequences of one-character strings.  Calendar dates    *)
(* (the YYYY-MM-DD strings of the code) are records [y, m, d]; comparing   *)
(* them field by field is the lexicographic comparison of the zero-padded  *)
(* strings.                                                                *)
(***************************************************************************)
EXTENDS Integers, Sequences, FiniteSets, TLC

(***************************************************************************)
(* Bounds of the model                                                     *)
(***************************************************************************)
\* number of turns (HTTP requests) of one behaviour
MaxTurns == 2
\* number of failed gateway attempts of one behaviour
MaxFailures == 3

(***************************************************************************)
(* String primitives of JavaScript                                         *)
(***************************************************************************)
UpperChars == <<"A","B","C","D","E","F","G","H","I","J","K","L","M","N","O","P","Q","R","S","T","U","V","W","X","Y","Z">>
LowerChars == <<"a","b","c","d","e","f","g","h","i","j","k","l","m","n","o","p","q","r","s","t","u","v","w","x","y","z">>

\* F(e), with e evaluated once
Bind(e, F(_)) == CHOOSE r \in {F(x) : x \in {e}} : TRUE

\* the lower-case letter of each upper-case letter
LowerOf ==
    [c \in {UpperChars[k] : k \in 1..26} |->
        LowerChars[CHOOSE k \in 1..26 : UpperChars[k] = c]]

\* String.prototype.toLowerCase
toLowerCase(s) ==
    [i \in 1..Len(s) |-> IF s[i] \in DOMAIN LowerOf THEN LowerOf[s[i]] ELSE s[i]]

\* String.prototype.includes
includes(s, t) ==
    \E i \in 0..(Len(s) - Len(t)) : SubSeq(s, i + 1, i + Len(t)) = t

\* String.prototype.trim (the only white space of the model is the blank)
trim(s) ==
    IF \A i \in 1..Len(s) : s[i] = " "
    THEN << >>
    ELSE LET a == CHOOSE i \in 1..Len(s) :
                      s[i] # " " /\ \A j \in 1..(i - 1) : s[j] = " "
             b == CHOOSE i \in 1..Len(s) :
                      s[i] # " " /\ \A j \in (i + 1)..Len(s) : s[j] = " "
         IN  SubSeq(s, a, b)

\* the values undefined and null
Undefined == << "undefined" >>
Null == << "null" >>

\* Array.prototype.find(x => s.includes(x)): the first element of arr that
\* occurs in s, or Undefined

RECURSIVE findFrom(_, _, _)
findFrom(arr, s, i) ==
    IF i > Len(arr) THEN Undefined
    ELSE IF includes(s, arr[i]) THEN arr[i]
    ELSE findFrom(arr, s, i + 1)
findIncluded(arr, s) == findFrom(arr, s, 1)

\* JavaScript truthiness of a string-or-absent value
Truthy(v) == v # Undefined /\ v # Null /\ v # << >>

(***************************************************************************)
(* Program constants                                                       *)
(***************************************************************************)
EXPENSE_CATEGORIES == <<
    <<"F","o","o","d"," ","&"," ","D","i","n","i","n","g">>, <<"T","r","a","n","s","p","o","r","t","a","t","i","o","n">>, <<"S","h","o","p","p","i","n","g">>, <<"B","i","l","l","s"," ","&"," ","U","t","i","l","i","t","i","e","s">>,
    <<"E","n","t","e","r","t","a","i","n","m","e","n","t">>, <<"T","r","a","v","e","l">>, <<"E","d","u","c","a","t","i","o","n">>, <<"H","e","a","l","t","h"," ","&"," ","F","i","t","n","e","s","s">>,
    <<"P","e","r","s","o","n","a","l"," ","C","a","r","e">>, <<"H","o","m","e"," ","&"," ","R","e","n","t">>, <<"G","r","o","c","e","r","i","e","s">>, <<"I","n","v","e","s","t","m","e","n","t","s">>,
    <<"I","n","s","u","r","a","n","c","e">>, <<"G","i","f","t","s"," ","&"," ","D","o","n","a","t","i","o","n","s">>, <<"O","t","h","e","r">> >>

CategorySet == {EXPENSE_CATEGORIES[i] : i \in 1..Len(EXPENSE_CATEGORIES)}

months == << <<"j","a","n","u","a","r","y">>, <<"f","e","b","r","u","a","r","y">>, <<"m","a","r","c","h">>, <<"a","p","r","i","l">>, <<"m","a","y">>, <<"j","u","n","e">>,
             <<"j","u","l","y">>, <<"a","u","g","u","s","t">>, <<"s","e","p","t","e","m","b","e","r">>, <<"o","c","t","o","b","e","r">>, <<"n","o","v","e","m","b","e","r">>, <<"d","e","c","e","m","b","e","r">> >>
monthAbbreviations == << <<"j","a","n">>, <<"f","e","b">>, <<"m","a","r">>, <<"a","p","r">>, <<"m","a","y">>, <<"j","u","n">>,
                         <<"j","u","l">>, <<"a","u","g">>, <<"s","e","p">>, <<"o","c","t">>, <<"n","o","v">>, <<"d","e","c">> >>
monthNames == months \o monthAbbreviations

\* handleMonthNameResponse: the first entry of monthNames the message contains
\* the month test with equality in place of includes
matchedMonthExact(message) ==
    Bind(toLowerCase(message), LAMBDA normalizedMessage :
             IF \E i \in 1..Len(monthNames) : normalizedMessage = monthNames[i]
             THEN normalizedMessage ELSE Undefined)
matchedMonth(message) ==
    Bind(toLowerCase(message), LAMBDA normalizedMessage :
             findIncluded(monthNames, normalizedMessage))

\* the test of the bare-month follow-up: /^(january|...|dec)$/i on the
\* trimmed message
IsBareMonth(message) ==
    Bind(trim(message), LAMBDA trimmed :
        Bind(toLowerCase(trimmed), LAMBDA word :
             \E i \in 1..Len(monthNames) : word = monthNames[i]))

\* default value of the parameter retries of callGroqApi
retries == 2
\* 30 * 60 * 1000, the age in ms beyond which a context is cleared
ExpiryMs == 30 * 60 * 1000

(***************************************************************************)
(* Calendar arithmetic of the JavaScript Date object                       *)
(***************************************************************************)
\* the calendar starts on Sunday 2017-01-01, day number 0
Epoch == [y |-> 2017, m |-> 1, d |-> 1]
EpochYear == Epoch.y
MsPerDay == 24 * 60 * 60 * 1000

IsLeap(y) == (y % 4 = 0 /\ y % 100 # 0) \/ y % 400 = 0
DaysInMonth(y, m) ==
    IF m = 2 THEN (IF IsLeap(y) THEN 29 ELSE 28)
    ELSE IF m \in {4, 6, 9, 11} THEN 30 ELSE 31
DaysInYear(y) == IF IsLeap(y) THEN 366 ELSE 365

\* leap years among the years 1..y, and days from the epoch to 1 January y
LeapsUpTo(y) == (y \div 4) - (y \div 100) + (y \div 400)
DaysBeforeYear(y) ==
    IF y <= EpochYear THEN 0
    ELSE 365 * (y - EpochYear) + LeapsUpTo(y - 1) - LeapsUpTo(EpochYear - 1)

RECURSIVE DaysBeforeMonth(_, _)
DaysBeforeMonth(y, m) ==
    IF m <= 1 THEN 0 ELSE DaysBeforeMonth(y, m - 1) + DaysInMonth(y, m - 1)

\* day number of a calendar date, and the date of a day number
DayNum(date) == DaysBeforeYear(date.y) + DaysBeforeMonth(date.y, date.m) + date.d - 1

RECURSIVE YearOfDay(_, _)
YearOfDay(n, y) == IF n < DaysBeforeYear(y + 1) THEN y ELSE YearOfDay(n, y + 1)

RECURSIVE MonthOfDay(_, _, _)
MonthOfDay(k, y, m) ==
    IF k < DaysBeforeMonth(y, m + 1) THEN m ELSE MonthOfDay(k, y, m + 1)

dateOfDay(n) ==
    LET y == YearOfDay(n, EpochYear + (n \div 366))
        k == n - DaysBeforeYear(y)
        m == MonthOfDay(k, y, 1)
    IN  [y |-> y, m |-> m, d |-> k - DaysBeforeMonth(y, m) + 1]

\* the calendar of the ten years from the epoch, by day number
Calendar == [n \in 0..(DaysBeforeYear(EpochYear + 10) - 1) |-> dateOfDay(n)]
DateOf(n) == IF n \in DOMAIN Calendar THEN Calendar[n] ELSE dateOfDay(n)

\* the day of the month changed without a carry into the month or the year
AddDaysNoCarry(date, k) ==
    IF date.d + k >= 1 /\ date.d + k <= DaysInMonth(date.y, date.m)
    THEN [date EXCEPT !.d = date.d + k]
    ELSE [date EXCEPT !.d = 1]
\* setDate(getDate() + k)
AddDays(date, k) == DateOf(DayNum(date) + k)

\* Date.prototype.getDay: 0 is Sunday
getDay(date) == DayNum(date) % 7

\* comparison of two YYYY-MM-DD strings
DateLeq(a, b) ==
    \/ a.y < b.y
    \/ a.y = b.y /\ a.m < b.m
    \/ a.y = b.y /\ a.m = b.m /\ a.d <= b.d

\* setMonth(getMonth() - 1) on the local fields of a date: the day of the
\* month is kept and overflows into the following month
setMonthBack(date) ==
    LET y == IF date.m = 1 THEN date.y - 1 ELSE date.y
        m == IF date.m = 1 THEN 12 ELSE date.m - 1
    IN  IF date.d <= DaysInMonth(y, m)
        THEN [y |-> y, m |-> m, d |-> date.d]
        ELSE [y |-> date.y, m |-> date.m, d |-> date.d - DaysInMonth(y, m)]

\* new Date(y, m, 0).toISOString().split('T')[0]: local midnight of the last
\* day of the month before month m, printed as a UTC date; east of Greenwich
\* local midnight is still the day before in UTC.  tz is the offset of local
\* time from UTC in minutes.
lastDayOfLastMonth(local, tz) ==
    LET last == AddDays([y |-> local.y, m |-> local.m, d |-> 1], -1)
    IN  IF tz > 0 THEN AddDays(last, -1) ELSE last

\* Process date periods for queries.  clock.utc is the date toISOString
\* prints, clock.local the date the local getters (getFullYear, getMonth,
\* getDate, getDay) read, clock.tz the offset in minutes.  A period that is
\* not a string makes period.toLowerCase() throw.
isMonthPeriod(p, i) == includes(p, months[i]) \/ includes(p, monthAbbreviations[i])

resolvePeriod(normalizedPeriod, clock) ==
    LET today == clock.local
        to == clock.utc
        day == IF getDay(today) = 0 THEN 7 ELSE getDay(today)
        R(f, t) == [threw |-> FALSE, from |-> f, to |-> t]
    IN  IF normalizedPeriod = <<"t","o","d","a","y">> THEN R(to, to)
        ELSE IF normalizedPeriod = <<"y","e","s","t","e","r","d","a","y">>
            THEN R(AddDays(to, -1), AddDays(to, -1))
        ELSE IF normalizedPeriod \in {<<"t","h","i","s"," ","w","e","e","k">>, <<"c","u","r","r","e","n","t"," ","w","e","e","k">>, <<"t","h","e"," ","w","e","e","k">>, <<"w","e","e","k">>}
            THEN R(AddDays(to, 1 - day), to)
        ELSE IF normalizedPeriod \in {<<"t","h","i","s"," ","m","o","n","t","h">>, <<"c","u","r","r","e","n","t"," ","m","o","n","t","h">>, <<"t","h","e"," ","m","o","n","t","h">>, <<"m","o","n","t","h">>}
            THEN R([y |-> today.y, m |-> today.m, d |-> 1], to)
        ELSE IF normalizedPeriod \in {<<"l","a","s","t"," ","m","o","n","t","h">>, <<"p","r","e","v","i","o","u","s"," ","m","o","n","t","h">>}
            THEN R([y |-> setMonthBack(today).y, m |-> setMonthBack(today).m, d |-> 1],
                   lastDayOfLastMonth(today, clock.tz))
        ELSE IF isMonthPeriod(normalizedPeriod, 4)
            THEN R([y |-> today.y, m |-> 4, d |-> 1], [y |-> today.y, m |-> 4, d |-> 30])
        ELSE IF isMonthPeriod(normalizedPeriod, 3)
            THEN R([y |-> today.y, m |-> 3, d |-> 1], [y |-> today.y, m |-> 3, d |-> 31])
        ELSE IF isMonthPeriod(normalizedPeriod, 2)
            THEN R([y |-> today.y, m |-> 2, d |-> 1],
                   [y |-> today.y, m |-> 2, d |-> IF today.y % 4 = 0 THEN 29 ELSE 28])
        ELSE IF isMonthPeriod(normalizedPeriod, 1)
            THEN R([y |-> today.y, m |-> 1, d |-> 1], [y |-> today.y, m |-> 1, d |-> 31])
        ELSE R(AddDays(to, -30), to)

processDatePeriod(period, clock) ==
    IF period = Undefined \/ period = Null
    THEN [threw |-> TRUE, from |-> clock.utc, to |-> clock.utc]
    ELSE Bind(toLowerCase(period),
              LAMBDA lowered : Bind(trim(lowered),
                  LAMBDA normalizedPeriod : resolvePeriod(normalizedPeriod, clock)))

\* Parse various time-related expressions (called with a lower-cased message)
matchExpression(expression, e) ==
    LET anyOf(set) == \E w \in set : includes(e, w)
        hits == {i \in 1..12 : includes(expression, months[i])
                               \/ includes(expression, monthAbbreviations[i])}
    IN  IF anyOf({<<"w","h","o","l","e"," ","m","o","n","t","h">>, <<"e","n","t","i","r","e"," ","m","o","n","t","h">>, <<"f","u","l","l"," ","m","o","n","t","h">>, <<"t","h","i","s"," ","m","o","n","t","h">>, <<"c","u","r","r","e","n","t"," ","m","o","n","t","h">>})
            THEN <<"t","h","i","s"," ","m","o","n","t","h">>
        ELSE IF anyOf({<<"l","a","s","t"," ","m","o","n","t","h">>, <<"p","r","e","v","i","o","u","s"," ","m","o","n","t","h">>}) THEN <<"l","a","s","t"," ","m","o","n","t","h">>
        ELSE IF anyOf({<<"t","h","i","s"," ","w","e","e","k">>, <<"c","u","r","r","e","n","t"," ","w","e","e","k">>}) THEN <<"t","h","i","s"," ","w","e","e","k">>
        ELSE IF anyOf({<<"t","o","d","a","y">>}) THEN <<"t","o","d","a","y">>
        ELSE IF anyOf({<<"y","e","s","t","e","r","d","a","y">>}) THEN <<"y","e","s","t","e","r","d","a","y">>
        ELSE IF hits # {} THEN months[CHOOSE i \in hits : \A j \in hits : i <= j]
        ELSE <<"t","h","i","s"," ","m","o","n","t","h">>
\* the regular expressions ignore case, the scan of the month names does not
parseTimeExpression(expression) ==
    Bind(toLowerCase(expression), LAMBDA e : matchExpression(expression, e))


(***************************************************************************)
(* Inputs of the model: users, messages, elapsed times and the replies of  *)
(* the external services                                                   *)
(***************************************************************************)
Users == {"u1", "u2"}
\* the users are interchangeable: the first request is this user's
FirstUser == "u1"

\* req.body.message; Undefined is a request body without a message
Messages == { <<"I"," ","s","p","e","n","t"," ","2","0","0"," ","o","n"," ","g","r","o","c","e","r","i","e","s"," ","t","o","d","a","y">>,
              <<"j","u","n","e">>,
              <<"A","p","r">>,
              <<"s","u","m","m","a","r","y"," ","f","o","r"," ","t","h","e"," ","m","o","n","t","h">>,
              <<"T","r","a","v","e","l"," ","e","x","p","e","n","s","e","s"," ","l","a","s","t"," ","m","o","n","t","h">>,
              Undefined }

\* time in ms that passes between two requests
Delays == {29 * 60 * 1000, 30 * 60 * 1000, 31 * 60 * 1000}

\* the day on which the process starts, the offset of its local time from
\* UTC in minutes and the time of day at which it starts
BootDays == {[y |-> 2025, m |-> 4, d |-> 15]}
TimezoneOffsets == {330}
BootTimes == {10 * 60 * 60 * 1000}

\* The text of a completion is modelled by how extractJsonFromText reads
\* it: "json" parses directly, "wrapped" is prose around one JSON value,
\* "badbraces" has braces around text that is not JSON, "nojson" has no
\* braces; value is the JSON value the text carries.
Content(form, value) == [form |-> form, value |-> value]

\* parsed replies to the intent prompt: type is the JSON type of the value
IntentValue(type, intent) == [type |-> type, intent |-> intent]
IntentReplies ==
    { Content("json", IntentValue("object", i)) :
          i \in {<<"a","d","d","_","e","x","p","e","n","s","e">>, <<"q","u","e","r","y">>, <<"c","h","i","t","c","h","a","t">>, <<"d","e","l","e","t","e","_","a","l","l">>, Undefined} }
    \cup { Content("json", IntentValue("null", Undefined)),
           Content("wrapped", IntentValue("object", <<"q","u","e","r","y">>)),
           Content("nojson", IntentValue("null", Undefined)) }

\* a JSON number, a JSON string or an absent field
Num(n) == [t |-> "number", n |-> n, s |-> << >>]
Str(s) == [t |-> "string", n |-> 0, s |-> s]
NoValue == [t |-> "undefined", n |-> 0, s |-> << >>]
\* an absent date field
NoDate == [y |-> 0, m |-> 0, d |-> 0]

ExpenseValue(type, error, amount, category, date, title) ==
    [type |-> type, error |-> error, amount |-> amount, category |-> category,
     date |-> date, title |-> title]
ExtractReplies(today) ==
    { Content("json", ExpenseValue("object", Undefined, a, <<"g","r","o","c","e","r","i","e","s">>, today, <<"G","r","o","c","e","r","i","e","s">>)) :
          a \in {Num(200), Num(-5), Str(<<"1","2","a","b","c">>), Str(<<"a","b","c">>), NoValue} }
    \cup { Content("json", ExpenseValue("object", Undefined, Num(200), <<"g","r","o","c","e","r","i","e","s">>, today, << >>)),
           Content("json", ExpenseValue("object", <<"C","o","u","l","d"," ","n","o","t"," ","u","n","d","e","r","s","t","a","n","d"," ","t","h","e"," ","e","x","p","e","n","s","e"," ","d","e","t","a","i","l","s",".">>,
                                        NoValue, Undefined, NoDate, Undefined)),
           Content("json", ExpenseValue("object", <<"C","o","u","l","d"," ","n","o","t"," ","u","n","d","e","r","s","t","a","n","d"," ","t","h","e"," ","e","x","p","e","n","s","e"," ","d","e","t","a","i","l","s",".">>,
                                        Num(200), <<"g","r","o","c","e","r","i","e","s">>, today, <<"G","r","o","c","e","r","i","e","s">>)),
           Content("json", ExpenseValue("number", Undefined, NoValue, Undefined, NoDate, Undefined)),
           Content("badbraces", ExpenseValue("null", Undefined, NoValue, Undefined, NoDate, Undefined)) }

\* replies to the category-mapping prompt (plain text)
MapReplies == { <<" ","G","r","o","c","e","r","i","e","s"," ">>, <<"g","r","o","c","e","r","i","e","s">> }

QueryValue(type, category, time_period) ==
    [type |-> type, category |-> category, time_period |-> time_period]
\* the periods a reply to the query prompt names: a month the message
\* names, or one of the fixed labels
QueryPeriods(message) ==
    {<<"t","h","i","s"," ","m","o","n","t","h">>, Undefined}
    \cup {w \in {matchedMonth(message)} : w # Undefined}
QueryReplies(message) ==
    { Content("json", QueryValue("object", c, p)) :
          c \in {Null, <<"f","o","o","d">>}, p \in QueryPeriods(message) }
    \cup { Content("nojson", QueryValue("null", Undefined, Undefined)) }

ChitchatReplies == { <<"H","i","!"," ","H","o","w"," ","c","a","n"," ","I"," ","h","e","l","p","?">> }


(***************************************************************************)
(* State                                                                   *)
(***************************************************************************)
VARIABLES
    bootDay,            \* calendar date (UTC) on which the process started
    tz,                 \* offset of the server's local time from UTC, minutes
    now,                \* Date.now(), in ms since 00:00 UTC of bootDay
    conversationCache,  \* the Map userId -> context
    expenses,           \* the documents of db.collection("expenses")
    pc,                 \* position of the turn in interactWithChatbot
    req,                \* the request of the turn: user and message
    res,                \* the responses the turn has sent
    turn,               \* local variables of the turn
    call,               \* the callGroqApi invocation the turn is awaiting
    turns,              \* number of turns started
    failures,           \* number of failed gateway attempts
    probe               \* a function of the controller called on its own

vars == << bootDay, tz, now, conversationCache, expenses, pc, req, res, turn,
           call, turns, failures, probe >>

\* the reading of the clock by new Date()
Clock == [utc   |-> AddDays(bootDay, now \div MsPerDay),
          local |-> AddDays(bootDay, (now + tz * 60 * 1000) \div MsPerDay),
          tz    |-> tz]

\* positions at which the turn awaits callGroqApi
GroqCallers == {"detectIntent", "extractExpenseDetails", "mapExpense",
                "queryExpenses", "mapQuery", "generateChitchatResponse"}

NoCall == [status |-> "none", attempt |-> 0, attempts |-> 0, slept |-> << >>,
           sent |-> << >>, result |-> << >>]
\* entry of callGroqApi: attempt = 0, nothing sent yet.  sent holds, for each
\* request sent, the number of JSON-only instructions in its system message
NewCall == [status |-> "pending", attempt |-> 0, attempts |-> 0, slept |-> << >>,
            sent |-> << >>, result |-> << >>]

NoDetails == ExpenseValue("undefined", Undefined, NoValue, Undefined, NoDate, Undefined)
NoRange == [threw |-> FALSE, from |-> NoDate, to |-> NoDate]

NoContext == [lastIntent |-> Null, lastQuery |-> Null, timestamp |-> 0]

\* locals at the entry of interactWithChatbot
NewTurn ==
    [via |-> "none",             \* call site of queryExpenses
     qmsg |-> << >>,             \* message passed to queryExpenses
     intent |-> Undefined,       \* const intent
     details |-> NoDetails,      \* parsedDetails / details
     category |-> Undefined,     \* queryParams.category
     time_period |-> Undefined,  \* queryParams.time_period
     fallback |-> FALSE,         \* the keyword scan built queryParams
     range |-> NoRange,          \* { from, to } of processDatePeriod
     categoryFilter |-> Null,
     began |-> 0,                \* Date.now() when the request arrived
     stored |-> 0,               \* documents in the store when it arrived
     context |-> NoContext,      \* const context as read from the cache
     cleared |-> FALSE,          \* the context was cleared as expired
     classified |-> 0,           \* calls of detectIntent
     adds |-> 0,                 \* calls of db.collection("expenses").add
     gets |-> 0]                 \* calls of query.get

NoRequest == [userId |-> "none", message |-> Undefined]
\* no function is called on its own
NoProbe == [fn |-> "none"]
\* no turn has started and the store is empty
Quiescent ==
    /\ conversationCache = << >>
    /\ expenses = << >>
    /\ pc = "idle"
    /\ req = NoRequest
    /\ res = << >>
    /\ turn = NewTurn
    /\ call = NoCall
    /\ turns = 0
    /\ failures = 0

Init ==
    /\ bootDay \in BootDays
    /\ tz \in TimezoneOffsets
    /\ now \in BootTimes
    /\ Quiescent
    /\ probe = NoProbe

(***************************************************************************)
(* Responses                                                               *)
(***************************************************************************)
\* res.json({ success: true, message })
Ok(message) == [status |-> 200, success |-> TRUE, message |-> message]
\* res.status(400).json({ error })
BadRequest(error) == [status |-> 400, success |-> FALSE, message |-> [kind |-> "error", error |-> error]]
\* the response of the catch block of interactWithChatbot
Trouble == [status |-> 500, success |-> FALSE, message |-> [kind |-> "trouble"]]

\* the sentences of queryExpenses, generateChitchatResponse and the
\* confirmation of an added expense
Apology == [kind |-> "apology"]
NoExpensesFound(categoryFilter, time_period) ==
    [kind |-> "noExpenses", categoryFilter |-> categoryFilter, time_period |-> time_period]
ChitchatFallback == [kind |-> "chitchatFallback"]
ChitchatReply(text) == [kind |-> "chitchat", text |-> text]
Added(amount, title, category, date) ==
    [kind |-> "added", amount |-> amount, title |-> title, category |-> category,
     date |-> date]


(***************************************************************************)
(* Pure functions of the controller                                        *)
(***************************************************************************)
\* Extract JSON from a potentially mixed text response: direct parsing
\* first, then the text between the first "{" and the last "}"
extractJsonFromText(text) ==
    IF text.form = "json" THEN [ok |-> TRUE, value |-> text.value]
    ELSE IF text.form = "wrapped" THEN [ok |-> TRUE, value |-> text.value]
    ELSE [ok |-> FALSE, value |-> text.value]

\* property access on null or undefined throws a TypeError
ThrowsOnAccess(value) == value.type \in {"null", "undefined"}

\* the value detectIntent returns for the outcome of its gateway call
detectIntentResult(c) ==
    IF c.status = "thrown" THEN <<"c","h","i","t","c","h","a","t">>
    ELSE LET parsedContent == extractJsonFromText(c.result)
         IN  IF ~parsedContent.ok \/ ThrowsOnAccess(parsedContent.value)
             THEN <<"c","h","i","t","c","h","a","t">>
             ELSE IF Truthy(parsedContent.value.intent)
                  THEN parsedContent.value.intent
                  ELSE <<"c","h","i","t","c","h","a","t">>

\* the mapping without the validation against EXPENSE_CATEGORIES
mapToPreDefinedCategoryUnchecked(c) ==
    IF c.status = "thrown" THEN <<"O","t","h","e","r">> ELSE trim(c.result)
\* the value mapToPreDefinedCategory returns for the outcome of its call
mapToPreDefinedCategoryResult(c) ==
    IF c.status = "thrown" THEN <<"O","t","h","e","r">>
    ELSE Bind(trim(c.result), LAMBDA mappedCategory :
             IF mappedCategory \in CategorySet THEN mappedCategory ELSE <<"O","t","h","e","r">>)

\* parseFloat: a number is itself, a string is read up to the first
\* character that cannot continue a number, anything else is NaN
Digits == <<"0","1","2","3","4","5","6","7","8","9">>
IsDigit(ch) == \E k \in 1..10 : Digits[k] = ch
DigitVal(ch) == (CHOOSE k \in 1..10 : Digits[k] = ch) - 1
RECURSIVE ReadDigits(_, _, _)
ReadDigits(str, i, acc) ==
    IF i <= Len(str) /\ IsDigit(str[i])
    THEN ReadDigits(str, i + 1, acc * 10 + DigitVal(str[i]))
    ELSE acc
NaN == [nan |-> TRUE, n |-> 0]
parseString(str) ==
    LET neg == Len(str) > 0 /\ str[1] = "-"
        first == IF neg THEN 2 ELSE 1
    IN  IF first <= Len(str) /\ IsDigit(str[first])
        THEN [nan |-> FALSE,
              n |-> IF neg THEN 0 - ReadDigits(str, first, 0)
                           ELSE ReadDigits(str, first, 0)]
        ELSE NaN
parseFloat(v) ==
    IF v.t = "number" THEN [nan |-> FALSE, n |-> v.n]
    ELSE IF v.t = "string" THEN Bind(trim(v.s), LAMBDA str : parseString(str))
    ELSE NaN

\* the test of interactWithChatbot that rejects an incomplete expense
\* the validation without its test of the title
IncompleteNoTitle(details) ==
    \/ parseFloat(details.amount).nan
    \/ ~Truthy(details.category)
    \/ details.date = NoDate
Incomplete(details) ==
    \/ parseFloat(details.amount).nan
    \/ ~Truthy(details.category)
    \/ details.date = NoDate
    \/ ~Truthy(details.title)

\* cat.toLowerCase() for each cat of EXPENSE_CATEGORIES
lowerCategories ==
    [i \in 1..Len(EXPENSE_CATEGORIES) |-> toLowerCase(EXPENSE_CATEGORIES[i])]

\* the keyword scan of queryExpenses after a reply that is not JSON
fallbackCategory(message) ==
    Bind(toLowerCase(message), LAMBDA m :
        LET hit == {i \in 1..Len(EXPENSE_CATEGORIES) : includes(m, lowerCategories[i])}
        IN  IF hit = {} THEN Null
            ELSE EXPENSE_CATEGORIES[CHOOSE i \in hit : \A j \in hit : i <= j])

fallbackTimePeriod(message) ==
    Bind(toLowerCase(message), LAMBDA m :
        IF includes(m, <<"t","o","d","a","y">>) THEN <<"t","o","d","a","y">>
        ELSE IF includes(m, <<"y","e","s","t","e","r","d","a","y">>) THEN <<"y","e","s","t","e","r","d","a","y">>
        ELSE IF includes(m, <<"w","e","e","k">>) THEN <<"t","h","i","s"," ","w","e","e","k">>
        ELSE IF includes(m, <<"m","o","n","t","h">>) THEN parseTimeExpression(m)
        ELSE <<"t","h","i","s"," ","m","o","n","t","h">>)

\* queryParams of queryExpenses for the outcome c of its gateway call: a
\* failed call throws out of the function, so does destructuring null; a
\* reply that is not JSON is replaced by the keyword scan of the message
queryParamsOf(c, message) ==
    IF c.status = "thrown"
    THEN [threw |-> TRUE, fallback |-> FALSE, params |-> QueryValue("null", Undefined, Undefined)]
    ELSE Bind(extractJsonFromText(c.result), LAMBDA parsed :
             IF parsed.ok
             THEN [threw |-> ThrowsOnAccess(parsed.value), fallback |-> FALSE,
                   params |-> parsed.value]
             ELSE [threw |-> FALSE, fallback |-> TRUE,
                   params |-> QueryValue("object", fallbackCategory(message),
                                         fallbackTimePeriod(message))])

\* the query without its filter on the user
MatchesAnyUser(doc, userId, range, categoryFilter) ==
    /\ DateLeq(range.from, doc.date)
    /\ DateLeq(doc.date, range.to)
    /\ categoryFilter # Null => doc.category = categoryFilter
\* the documents the query of queryExpenses returns
Matches(doc, userId, range, categoryFilter) ==
    /\ doc.userId = userId
    /\ DateLeq(range.from, doc.date)
    /\ DateLeq(doc.date, range.to)
    /\ categoryFilter # Null => doc.category = categoryFilter
Snapshot(docs, userId, range, categoryFilter) ==
    SelectSeq(docs, LAMBDA doc : Matches(doc, userId, range, categoryFilter))

RECURSIVE SumAmounts(_)
SumAmounts(docs) ==
    IF docs = << >> THEN 0 ELSE Head(docs).amount + SumAmounts(Tail(docs))

\* keys of categoryTotals in insertion order
RECURSIVE CategoryKeys(_, _)
CategoryKeys(docs, seen) ==
    IF docs = << >> THEN seen
    ELSE IF \E k \in 1..Len(seen) : seen[k] = Head(docs).category
         THEN CategoryKeys(Tail(docs), seen)
         ELSE CategoryKeys(Tail(docs), Append(seen, Head(docs).category))
CategoryTotal(docs, cat) ==
    SumAmounts(SelectSeq(docs, LAMBDA doc : doc.category = cat))

\* entries sorted by (a, b) => b[1] - a[1]; the sort is stable
RECURSIVE SortDescending(_)
SortDescending(entries) ==
    IF entries = << >> THEN << >>
    ELSE LET best == CHOOSE i \in 1..Len(entries) :
                         /\ \A j \in 1..Len(entries) : entries[j].amt <= entries[i].amt
                         /\ \A j \in 1..(i - 1) : entries[j].amt < entries[i].amt
         IN  << entries[best] >> \o
             SortDescending(SubSeq(entries, 1, best - 1)
                            \o SubSeq(entries, best + 1, Len(entries)))
\* the breakdown without the sort of the entries
topCategoriesUnsorted(docs) ==
    LET keys == CategoryKeys(docs, << >>)
        entries == [k \in 1..Len(keys) |->
                       [cat |-> keys[k], amt |-> CategoryTotal(docs, keys[k])]]
    IN  SubSeq(entries, 1, IF Len(entries) < 3 THEN Len(entries) ELSE 3)
topCategories(docs) ==
    LET keys == CategoryKeys(docs, << >>)
        entries == [k \in 1..Len(keys) |->
                       [cat |-> keys[k], amt |-> CategoryTotal(docs, keys[k])]]
        sorted == SortDescending(entries)
    IN  SubSeq(sorted, 1, IF Len(sorted) < 3 THEN Len(sorted) ELSE 3)

\* charAt(0).toUpperCase() + slice(1)
capitalize(str) ==
    [i \in 1..Len(str) |->
        IF i = 1 /\ \E k \in 1..26 : LowerChars[k] = str[1]
        THEN UpperChars[CHOOSE k \in 1..26 : LowerChars[k] = str[1]]
        ELSE str[i]]

\* the period phrase of the summary sentence
formattedPeriod(time_period) ==
    IF time_period = <<"t","o","d","a","y">> THEN <<"t","o","d","a","y">>
    ELSE IF time_period = <<"y","e","s","t","e","r","d","a","y">> THEN <<"y","e","s","t","e","r","d","a","y">>
    ELSE IF time_period \in {<<"t","h","i","s"," ","w","e","e","k">>, <<"c","u","r","r","e","n","t"," ","w","e","e","k">>} THEN <<"t","h","i","s"," ","w","e","e","k">>
    ELSE IF time_period \in {<<"t","h","i","s"," ","m","o","n","t","h">>, <<"c","u","r","r","e","n","t"," ","m","o","n","t","h">>} THEN <<"t","h","i","s"," ","m","o","n","t","h">>
    ELSE IF time_period \in {<<"l","a","s","t"," ","m","o","n","t","h">>, <<"p","r","e","v","i","o","u","s"," ","m","o","n","t","h">>} THEN <<"l","a","s","t"," ","m","o","n","t","h">>
    ELSE IF \E i \in 1..Len(monthNames) : includes(toLowerCase(time_period), monthNames[i])
         THEN <<"i","n"," ">> \o capitalize(time_period)
         ELSE <<"f","o","r"," ">> \o time_period

\* the sentence queryExpenses returns for the snapshot of its query
Summary(docs, categoryFilter, time_period) ==
    IF docs = << >> THEN NoExpensesFound(categoryFilter, time_period)
    ELSE [kind |-> "summary",
          total |-> SumAmounts(docs),
          count |-> Len(docs),
          categoryFilter |-> categoryFilter,
          period |-> formattedPeriod(time_period),
          top |-> IF categoryFilter = Null /\ Len(docs) > 1
                  THEN topCategories(docs) ELSE << >>]


(***************************************************************************)
(* The turn: interactWithChatbot, one action per stretch of code between   *)
(* two awaits                                                              *)
(***************************************************************************)
\* res.json(...) followed by return
\* a response sent without the return that ends the handler
RespondTwice(r) ==
    /\ res' = Append(Append(res, r), r)
    /\ pc' = "done"
    /\ call' = call
Respond(r) ==
    /\ res' = Append(res, r)
    /\ pc' = "done"
    /\ call' = call

\* A request arrives, delay ms after the previous one.  The handler runs
\* handleMonthNameResponse: a message that is not a string throws into the
\* catch block, a message containing a month name starts queryExpenses,
\* any other message resumes at the context step.
BeginTurn(u, m, delay) ==
    /\ pc \in {"idle", "done"}
    /\ turns < MaxTurns
    /\ turns' = turns + 1
    /\ turns = 0 => delay = 0 /\ u = FirstUser
    /\ turns > 0 => delay # 0
    /\ now' = now + delay
    /\ req' = [userId |-> u, message |-> m]
    /\ IF m = Undefined
       THEN /\ res' = << Trouble >>
            /\ pc' = "done"
            /\ call' = NoCall
            /\ turn' = [NewTurn EXCEPT !.began = now', !.stored = Len(expenses)]
       ELSE IF matchedMonth(m) # Undefined
       THEN /\ turn' = [NewTurn EXCEPT !.began = now', !.stored = Len(expenses),
                           !.via = "month",
                           !.qmsg = <<"H","o","w"," ","m","u","c","h"," ","d","i","d"," ","I"," ","s","p","e","n","d"," ","i","n"," ">> \o matchedMonth(m) \o <<"?">>]
            /\ pc' = "queryExpenses"
            /\ call' = NewCall
            /\ res' = << >>
       ELSE /\ turn' = [NewTurn EXCEPT !.began = now', !.stored = Len(expenses)]
            /\ pc' = "context"
            /\ call' = NoCall
            /\ res' = << >>
    /\ UNCHANGED << probe, bootDay, tz, conversationCache, expenses, failures >>

\* Get conversation context or initialize it, clear it when it is older
\* than 30 minutes, update its timestamp, and call detectIntent
NewContext == [lastIntent |-> Null, lastQuery |-> Null, timestamp |-> now]
\* Date.now() - context.timestamp > 30 * 60 * 1000
\* the expiry test with >= in place of >
ExpiredAtLimit(context) == now - context.timestamp >= ExpiryMs
Expired(context) == now - context.timestamp > ExpiryMs
\* context.timestamp = Date.now()
\* the context step without the assignment of the timestamp
keepTimestamp(context) == context
refreshTimestamp(context) == [context EXCEPT !.timestamp = now]
RefreshContext ==
    /\ pc = "context"
    /\ LET u == req.userId
           context == IF u \in DOMAIN conversationCache
                      THEN conversationCache[u] ELSE NewContext
           cleared == IF Expired(context)
                      THEN [context EXCEPT !.lastIntent = Null, !.lastQuery = Null]
                      ELSE context
       IN  /\ conversationCache' = (u :> refreshTimestamp(cleared)) @@ conversationCache
           /\ turn' = [turn EXCEPT !.context = context, !.cleared = Expired(context),
                                   !.classified = @ + 1]
    /\ pc' = "detectIntent"
    /\ call' = NewCall
    /\ UNCHANGED << probe, bootDay, tz, now, expenses, req, res, turns, failures >>

\* callGroqApi: one attempt of the loop fails.  After the last attempt the
\* error is thrown to the caller, otherwise the loop sleeps
\* 1000 * 2^attempt ms and tries again.
Pow2(n) == IF n = 0 THEN 1 ELSE IF n = 1 THEN 2 ELSE IF n = 2 THEN 4 ELSE 8
Backoff(attempt) == 1000 * Pow2(attempt)
\* the argument jsonOnly at each call site
jsonOnly(site) == site \in {"detectIntent", "extractExpenseDetails", "queryExpenses"}
\* JSON-only instructions in messages[0].content when the iteration numbered
\* attempt sends its request: the iteration appends one to the content of
\* the message object it shares with the iterations before it
instructionsSent(site, attempt) == IF jsonOnly(site) THEN attempt + 1 ELSE 0
\* the loop bound off by one: a fourth attempt
LastAttemptLate(attempt) == attempt = retries + 1
LastAttempt(attempt) == attempt = retries
GroqAttemptFails ==
    /\ pc \in GroqCallers
    /\ call.status = "pending"
    /\ failures < MaxFailures
    /\ failures' = failures + 1
    /\ IF LastAttempt(call.attempt)
       THEN /\ call' = [call EXCEPT !.status = "thrown", !.attempts = @ + 1,
                                    !.sent = Append(@, instructionsSent(pc, call.attempt))]
            /\ now' = now
       ELSE /\ call' = [call EXCEPT !.attempt = @ + 1, !.attempts = @ + 1,
                                    !.sent = Append(@, instructionsSent(pc, call.attempt)),
                                    !.slept = Append(@, Backoff(call.attempt))]
            /\ now' = now + Backoff(call.attempt)
    /\ UNCHANGED << probe, bootDay, tz, conversationCache, expenses, pc, req, res, turn, turns >>

\* the replies the model can give at each call site
Replies ==
    IF pc = "detectIntent" THEN IntentReplies
    ELSE IF pc = "extractExpenseDetails" THEN ExtractReplies(Clock.utc)
    ELSE IF pc = "queryExpenses" THEN QueryReplies(turn.qmsg)
    ELSE IF pc = "generateChitchatResponse" THEN ChitchatReplies
    ELSE MapReplies

\* callGroqApi: an attempt succeeds and its response is returned
GroqAttemptSucceeds ==
    /\ pc \in GroqCallers
    /\ call.status = "pending"
    /\ \E reply \in Replies :
           call' = [call EXCEPT !.status = "ok", !.attempts = @ + 1,
                                !.sent = Append(@, instructionsSent(pc, call.attempt)),
                                !.result = reply]
    /\ UNCHANGED << probe, bootDay, tz, now, conversationCache, expenses, pc, req, res, turn,
                    turns, failures >>

\* The handler interactWithChatbot calls once detectIntent has returned, for
\* the context object after the context step.  The intent is first stored
\* in the context; the follow-up test then reads it from there.
NoRoute == [handler |-> "none", via |-> "none", qmsg |-> << >>]
\* the follow-up test made on the context as it was before the intent of
\* the turn was stored in it
routeOnPreviousIntent(intent, message, context) ==
    IF intent = <<"a","d","d","_","e","x","p","e","n","s","e">>
    THEN [NoRoute EXCEPT !.handler = "extractExpenseDetails"]
    ELSE IF intent = <<"q","u","e","r","y">>
    THEN [handler |-> "queryExpenses", via |-> "query", qmsg |-> message]
    ELSE IF context.lastIntent = <<"q","u","e","r","y">> /\ IsBareMonth(message)
    THEN [handler |-> "queryExpenses", via |-> "followup",
          qmsg |-> <<"H","o","w"," ","m","u","c","h"," ","d","i","d"," ","I"," ","s","p","e","n","d"," ","i","n"," ">> \o trim(message) \o <<"?">>]
    ELSE [NoRoute EXCEPT !.handler = "generateChitchatResponse"]
routeOf(intent, message, context) ==
    LET stored == [context EXCEPT !.lastIntent = intent]
    IN  IF intent = <<"a","d","d","_","e","x","p","e","n","s","e">>
        THEN [NoRoute EXCEPT !.handler = "extractExpenseDetails"]
        ELSE IF intent = <<"q","u","e","r","y">>
        THEN [handler |-> "queryExpenses", via |-> "query", qmsg |-> message]
        ELSE IF stored.lastIntent = <<"q","u","e","r","y">> /\ IsBareMonth(message)
        THEN [handler |-> "queryExpenses", via |-> "followup",
              qmsg |-> <<"H","o","w"," ","m","u","c","h"," ","d","i","d"," ","I"," ","s","p","e","n","d"," ","i","n"," ">> \o trim(message) \o <<"?">>]
        ELSE [NoRoute EXCEPT !.handler = "generateChitchatResponse"]

\* detectIntent returns; the intent is stored in the context and the turn
\* branches on it
DetectIntentReturns ==
    /\ pc = "detectIntent"
    /\ call.status \in {"ok", "thrown"}
    /\ LET intent == detectIntentResult(call)
           u == req.userId
           message == req.message
       IN  \E route \in {routeOf(intent, message, conversationCache[u])} :
               /\ conversationCache' =
                      IF intent = <<"q","u","e","r","y">>
                      THEN [conversationCache EXCEPT ![u].lastIntent = intent,
                                                    ![u].lastQuery = message]
                      ELSE [conversationCache EXCEPT ![u].lastIntent = intent]
               /\ turn' = [turn EXCEPT !.intent = intent, !.via = route.via,
                                       !.qmsg = route.qmsg]
               /\ pc' = route.handler
               /\ call' = NewCall
    /\ UNCHANGED << probe, bootDay, tz, now, expenses, req, res, turns, failures >>


\* extractExpenseDetails after its gateway call: a failed call, a reply
\* that is not JSON or a property read on null end in the catch block; a
\* reply with an error is returned as it is; otherwise the category is sent
\* to mapToPreDefinedCategory
FailedToParse ==
    ExpenseValue("object", <<"F","a","i","l","e","d"," ","t","o"," ","p","a","r","s","e"," ","e","x","p","e","n","s","e"," ","d","e","t","a","i","l","s",".">>, NoValue, Undefined,
                 NoDate, Undefined)
ExtractReturns ==
    /\ pc = "extractExpenseDetails"
    /\ call.status \in {"ok", "thrown"}
    /\ LET parsed == IF call.status = "thrown"
                     THEN [ok |-> FALSE, value |-> NoDetails]
                     ELSE extractJsonFromText(call.result)
           details == IF ~parsed.ok \/ ThrowsOnAccess(parsed.value)
                      THEN FailedToParse ELSE parsed.value
       IN  /\ turn' = [turn EXCEPT !.details = details]
           /\ IF Truthy(details.error)
              THEN Respond(BadRequest(details.error))
              ELSE /\ pc' = "mapExpense"
                   /\ call' = NewCall
                   /\ res' = res
    /\ UNCHANGED << probe, bootDay, tz, now, conversationCache, expenses, req, turns, failures >>

\* mapToPreDefinedCategory returns to extractExpenseDetails, which returns
\* to interactWithChatbot: the expense is validated and db...add is called.
\* The assignment of the category to a details value that is not an object
\* has no effect.
\* the step without the mapping: the phrase the model extracted is kept
MapExpenseKeepsPhrase ==
    /\ pc = "mapExpense"
    /\ call.status \in {"ok", "thrown"}
    /\ \E details \in {turn.details} :
           IF Incomplete(details)
           THEN /\ Respond(BadRequest(<<"I","n","c","o","m","p","l","e","t","e"," ","e","x","p","e","n","s","e"," ","i","n","f","o","r","m","a","t","i","o","n",".">>))
                /\ turn' = [turn EXCEPT !.details = details]
           ELSE /\ pc' = "add"
                /\ call' = NoCall
                /\ res' = res
                /\ turn' = [turn EXCEPT !.details = details, !.adds = @ + 1]
    /\ UNCHANGED << probe, bootDay, tz, now, conversationCache, expenses, req, turns, failures >>
MapExpenseReturns ==
    /\ pc = "mapExpense"
    /\ call.status \in {"ok", "thrown"}
    /\ \E mapped \in {mapToPreDefinedCategoryResult(call)} :
       \E details \in {IF turn.details.type = "object"
                        THEN [turn.details EXCEPT !.category = mapped]
                        ELSE turn.details} :
           IF Incomplete(details)
           THEN /\ Respond(BadRequest(<<"I","n","c","o","m","p","l","e","t","e"," ","e","x","p","e","n","s","e"," ","i","n","f","o","r","m","a","t","i","o","n",".">>))
                /\ turn' = [turn EXCEPT !.details = details]
           ELSE /\ pc' = "add"
                /\ call' = NoCall
                /\ res' = res
                /\ turn' = [turn EXCEPT !.details = details, !.adds = @ + 1]
    /\ UNCHANGED << probe, bootDay, tz, now, conversationCache, expenses, req, turns, failures >>

\* db.collection("expenses").add(...) resolves, or rejects into the catch
\* block of interactWithChatbot
StoreAddReturns(ok) ==
    /\ pc = "add"
    /\ IF ok
       THEN /\ expenses' = Append(expenses,
                   [userId |-> req.userId,
                    amount |-> parseFloat(turn.details.amount).n,
                    category |-> turn.details.category,
                    date |-> turn.details.date,
                    title |-> turn.details.title])
            /\ Respond(Ok(Added(turn.details.amount, turn.details.title,
                                turn.details.category, turn.details.date)))
       ELSE /\ expenses' = expenses
            /\ Respond(Trouble)
    /\ UNCHANGED << probe, bootDay, tz, now, conversationCache, req, turn, turns, failures >>

\* queryExpenses after its gateway call.  A failed call throws into the
\* catch block of queryExpenses.  The reply is parsed, or the keyword scan
\* of the message replaces it; the period is resolved; a category is sent
\* to mapToPreDefinedCategory, otherwise the query is executed.
QueryParamsReturn ==
    /\ pc = "queryExpenses"
    /\ call.status \in {"ok", "thrown"}
    /\ \E q \in {queryParamsOf(call, turn.qmsg)} :
       \E clock \in {Clock} :
       \E range \in {IF q.threw THEN NoRange
                      ELSE processDatePeriod(q.params.time_period, clock)} :
           IF q.threw \/ range.threw
           THEN /\ Respond(Ok(Apology))
                /\ turn' = [turn EXCEPT !.fallback = q.fallback]
           ELSE /\ turn' = [turn EXCEPT !.fallback = q.fallback,
                               !.category = q.params.category,
                               !.time_period = q.params.time_period,
                               !.range = range,
                               !.gets = IF Truthy(q.params.category) THEN @ ELSE @ + 1]
                /\ pc' = IF Truthy(q.params.category) THEN "mapQuery" ELSE "get"
                /\ call' = IF Truthy(q.params.category) THEN NewCall ELSE NoCall
                /\ res' = res
    /\ UNCHANGED << probe, bootDay, tz, now, conversationCache, expenses, req, turns, failures >>

\* mapToPreDefinedCategory returns to queryExpenses: the category filter is
\* added and the query is executed
MapQueryReturns ==
    /\ pc = "mapQuery"
    /\ call.status \in {"ok", "thrown"}
    /\ turn' = [turn EXCEPT !.categoryFilter = mapToPreDefinedCategoryResult(call),
                            !.gets = @ + 1]
    /\ pc' = "get"
    /\ call' = NoCall
    /\ UNCHANGED << probe, bootDay, tz, now, conversationCache, expenses, req, res, turns,
                    failures >>

\* query.get() resolves with the snapshot, or rejects into the catch block
\* of queryExpenses; the sentence is sent by interactWithChatbot
\* the query without the catch block of queryExpenses around it: a
\* rejection reaches the catch block of interactWithChatbot
StoreGetThrows(ok) ==
    /\ pc = "get"
    /\ IF ok
       THEN Respond(Ok(Summary(Snapshot(expenses, req.userId, turn.range,
                                        turn.categoryFilter),
                               turn.categoryFilter, turn.time_period)))
       ELSE Respond(Trouble)
    /\ UNCHANGED << probe, bootDay, tz, now, conversationCache, expenses, req, turn, turns,
                    failures >>
StoreGetReturns(ok) ==
    /\ pc = "get"
    /\ IF ok
       THEN Respond(Ok(Summary(Snapshot(expenses, req.userId, turn.range,
                                        turn.categoryFilter),
                               turn.categoryFilter, turn.time_period)))
       ELSE Respond(Ok(Apology))
    /\ UNCHANGED << probe, bootDay, tz, now, conversationCache, expenses, req, turn, turns,
                    failures >>

\* generateChitchatResponse without its catch block: the error of the
\* gateway reaches the catch block of interactWithChatbot
ChitchatThrows ==
    /\ pc = "generateChitchatResponse"
    /\ call.status \in {"ok", "thrown"}
    /\ IF call.status = "ok"
       THEN Respond(Ok(ChitchatReply(call.result)))
       ELSE Respond(Trouble)
    /\ UNCHANGED << probe, bootDay, tz, now, conversationCache, expenses, req, turn, turns,
                    failures >>
\* generateChitchatResponse returns the reply, or its fallback sentence
ChitchatReturns ==
    /\ pc = "generateChitchatResponse"
    /\ call.status \in {"ok", "thrown"}
    /\ IF call.status = "ok"
       THEN Respond(Ok(ChitchatReply(call.result)))
       ELSE Respond(Ok(ChitchatFallback))
    /\ UNCHANGED << probe, bootDay, tz, now, conversationCache, expenses, req, turn, turns,
                    failures >>

Next ==
    \/ \E u \in Users, m \in Messages, delay \in Delays \cup {0} : BeginTurn(u, m, delay)
    \/ RefreshContext
    \/ GroqAttemptFails
    \/ GroqAttemptSucceeds
    \/ DetectIntentReturns
    \/ ExtractReturns
    \/ MapExpenseReturns
    \/ \E ok \in BOOLEAN : StoreAddReturns(ok)
    \/ QueryParamsReturn
    \/ MapQueryReturns
    \/ \E ok \in BOOLEAN : StoreGetReturns(ok)
    \/ ChitchatReturns

Spec == Init /\ [][Next]_vars

\* every step the handler takes on its own; only the arrival of a request
\* is left to the environment
TurnStep ==
    \/ RefreshContext
    \/ GroqAttemptFails
    \/ GroqAttemptSucceeds
    \/ DetectIntentReturns
    \/ ExtractReturns
    \/ MapExpenseReturns
    \/ \E ok \in BOOLEAN : StoreAddReturns(ok)
    \/ QueryParamsReturn
    \/ MapQueryReturns
    \/ \E ok \in BOOLEAN : StoreGetReturns(ok)
    \/ ChitchatReturns

\* every external call eventually returns or fails and the event loop
\* resumes the handler
FairSpec == Spec /\ WF_vars(TurnStep)


(***************************************************************************)
(* The summary of queryExpenses on its own: the snapshot of the query is   *)
(* drawn from the documents the store can return                           *)
(***************************************************************************)
\* largest number of documents in a snapshot
MaxDocs == 4
SummaryAmounts == {50, 100, 300}
SummaryCategories == {<<"F","o","o","d"," ","&"," ","D","i","n","i","n","g">>, <<"T","r","a","v","e","l">>, <<"G","r","o","c","e","r","i","e","s">>, <<"O","t","h","e","r">>}
SummaryDocs(categories) ==
    { [userId |-> FirstUser, amount |-> a, category |-> c,
       date |-> [y |-> 2025, m |-> 4, d |-> 15], title |-> <<"L","u","n","c","h">>] :
          a \in SummaryAmounts, c \in categories }
\* the snapshots of a query with and without a category filter
Snapshots(categoryFilter) ==
    LET categories == IF categoryFilter = Null THEN SummaryCategories
                      ELSE {categoryFilter}
    IN  UNION { [1..n -> SummaryDocs(categories)] : n \in 0..MaxDocs }

SummaryInit ==
    /\ bootDay \in BootDays
    /\ tz \in TimezoneOffsets
    /\ now \in BootTimes
    /\ Quiescent
    /\ \E categoryFilter \in {Null} \cup SummaryCategories :
       \E docs \in Snapshots(categoryFilter) :
           probe = [fn |-> "summary", docs |-> docs, categoryFilter |-> categoryFilter,
                    time_period |-> <<"t","h","i","s"," ","m","o","n","t","h">>, applied |-> FALSE,
                    result |-> Apology]

\* the snapshot is processed into the sentence
Summarize ==
    /\ probe.fn = "summary" /\ ~probe.applied
    /\ probe' = [probe EXCEPT !.applied = TRUE,
                              !.result = Summary(probe.docs, probe.categoryFilter,
                                                 probe.time_period)]
    /\ UNCHANGED << bootDay, tz, now, conversationCache, expenses, pc, req, res, turn,
                    call, turns, failures >>

SummarySpec == SummaryInit /\ [][Summarize]_vars


(***************************************************************************)
(* processDatePeriod on its own: the clock and the period label are drawn  *)
(* from bounded sets                                                       *)
(***************************************************************************)
\* the days on which the clock is read: every day from the first to the
\* last of these, and two days of a century year that is not a leap year
FirstProbeDay == [y |-> 2024, m |-> 1, d |-> 1]
LastProbeDay == [y |-> 2025, m |-> 3, d |-> 31]
ProbeDays ==
    { DateOf(n) : n \in DayNum(FirstProbeDay)..DayNum(LastProbeDay) }
    \cup { [y |-> 2100, m |-> 2, d |-> 10], [y |-> 2100, m |-> 12, d |-> 31] }
\* time of day (UTC) in ms and offset of local time in minutes: local and
\* UTC dates agree, local is a day ahead, local is a day behind
ProbeClocks ==
    { [time |-> 10 * 60 * 60 * 1000, tz |-> 0],
      [time |-> 10 * 60 * 60 * 1000, tz |-> 330],
      [time |-> 10 * 60 * 60 * 1000, tz |-> -300],
      [time |-> 23 * 60 * 60 * 1000, tz |-> 330],
      [time |-> 60 * 60 * 1000, tz |-> -300] }
\* the labels given to processDatePeriod
PeriodLabels ==
    { months[i] : i \in 1..12 } \cup { monthAbbreviations[i] : i \in 1..12 }
    \cup { <<"t","o","d","a","y">>, <<"y","e","s","t","e","r","d","a","y">>, <<"t","h","i","s"," ","w","e","e","k">>, <<"c","u","r","r","e","n","t"," ","w","e","e","k">>, <<"t","h","i","s"," ","m","o","n","t","h">>,
           <<"c","u","r","r","e","n","t"," ","m","o","n","t","h">>, <<"l","a","s","t"," ","m","o","n","t","h">>, <<"p","r","e","v","i","o","u","s"," ","m","o","n","t","h">>, <<" ","L","a","s","t"," ","M","o","n","t","h"," ">>,
           <<"l","a","s","t"," ","7"," ","d","a","y","s">>, <<"n","e","x","t"," ","y","e","a","r">> }

DateInit ==
    /\ bootDay \in ProbeDays
    /\ \E c \in ProbeClocks : now = c.time /\ tz = c.tz
    /\ Quiescent
    /\ \E period \in PeriodLabels :
           probe = [fn |-> "processDatePeriod", period |-> period,
                    applied |-> FALSE, result |-> NoRange]

\* processDatePeriod(period) is called
ResolvePeriod ==
    /\ probe.fn = "processDatePeriod" /\ ~probe.applied
    /\ probe' = [probe EXCEPT !.applied = TRUE,
                              !.result = processDatePeriod(probe.period, Clock)]
    /\ UNCHANGED << bootDay, tz, now, conversationCache, expenses, pc, req, res, turn,
                    call, turns, failures >>

DateSpec == DateInit /\ [][ResolvePeriod]_vars


(***************************************************************************)
(* The periods of getAnalytics on their own (analyticsController.js): the  *)
(* clock, the timeframe and the custom bounds are drawn from bounded sets  *)
(***************************************************************************)
\* new Date(y, m, d).toISOString().split('T')[0]: local midnight of a date
\* printed as a UTC date; east of Greenwich that is the day before
toISODate(localDate, offset) == IF offset > 0 THEN AddDays(localDate, -1) ELSE localDate

\* new Date(y, m - 1, 1) and new Date(y, m + 1, 0) for the month of a date
firstOfMonth(date) == [y |-> date.y, m |-> date.m, d |-> 1]
firstOfPreviousMonth(date) ==
    IF date.m = 1 THEN [y |-> date.y - 1, m |-> 12, d |-> 1]
    ELSE [y |-> date.y, m |-> date.m - 1, d |-> 1]
lastOfMonth(date) == [y |-> date.y, m |-> date.m, d |-> DaysInMonth(date.y, date.m)]

\* Math.floor(today.getMonth() / 3), getMonth counting from 0
currentQuarter(today) == (today.m - 1) \div 3
\* new Date(y, q * 3, 1) for a quarter q >= 0
firstOfQuarter(y, q) == [y |-> y, m |-> q * 3 + 1, d |-> 1]

\* the last day of a year taken as the end of the year before year y
lastDayOfSameYear(y) == [y |-> y, m |-> 12, d |-> 31]
\* new Date(today.getFullYear() - 1, 11, 31)
lastDayOfPreviousYear(y) == [y |-> y - 1, m |-> 12, d |-> 31]

\* today.getDate() - day + (day === 0 ? -6 : 1), as an offset from today
mondayOffset(day) == IF day = 0 THEN -6 ELSE 1 - day

NoPeriods == [startDate |-> NoDate, endDate |-> NoDate,
              previousStartDate |-> NoDate, previousEndDate |-> NoDate]

\* startDate, endDate, previousStartDate and previousEndDate of getAnalytics.
\* clock.utc is the date toISOString prints, clock.local the date the local
\* getters read.  A date string is parsed as midnight UTC, and setDate moves
\* the instant by whole days, so the dates printed move by as many days.
getAnalyticsPeriods(timeframe, customStart, customEnd, clock) ==
    LET today == clock.local
        utc == clock.utc
        offset == clock.tz
        P(s, e, ps, pe) == [startDate |-> s, endDate |-> e,
                            previousStartDate |-> ps, previousEndDate |-> pe]
    IN  IF timeframe = <<"c","u","s","t","o","m">> /\ customStart # NoDate /\ customEnd # NoDate
        THEN LET diffDays == DayNum(customEnd) - DayNum(customStart)
                 prevEnd == AddDays(customStart, -1)
             IN  P(customStart, customEnd, AddDays(prevEnd, 0 - diffDays), prevEnd)
        ELSE IF timeframe = <<"d","a","y">>
        THEN P(utc, utc, AddDays(utc, -1), AddDays(utc, -1))
        ELSE IF timeframe = <<"w","e","e","k">>
        THEN LET startDate == AddDays(utc, mondayOffset(getDay(today)))
                 previousEndDate == AddDays(startDate, -1)
             IN  P(startDate, utc, AddDays(previousEndDate, -6), previousEndDate)
        ELSE IF timeframe = <<"m","o","n","t","h">>
        THEN P(toISODate(firstOfMonth(today), offset),
               toISODate(lastOfMonth(today), offset),
               toISODate(firstOfPreviousMonth(today), offset),
               toISODate(AddDays(firstOfMonth(today), -1), offset))
        ELSE IF timeframe = <<"q","u","a","r","t","e","r">>
        THEN LET q == currentQuarter(today)
             IN  IF q = 0
                 THEN P(toISODate(firstOfQuarter(today.y, q), offset), utc,
                        toISODate([y |-> today.y - 1, m |-> 10, d |-> 1], offset),
                        toISODate(lastDayOfPreviousYear(today.y), offset))
                 ELSE P(toISODate(firstOfQuarter(today.y, q), offset), utc,
                        toISODate(firstOfQuarter(today.y, q - 1), offset),
                        toISODate(AddDays(firstOfQuarter(today.y, q), -1), offset))
        ELSE IF timeframe = <<"y","e","a","r">>
        THEN P(toISODate([y |-> today.y, m |-> 1, d |-> 1], offset), utc,
               toISODate([y |-> today.y - 1, m |-> 1, d |-> 1], offset),
               toISODate(lastDayOfPreviousYear(today.y), offset))
        ELSE [NoPeriods EXCEPT !.endDate = utc]

\* the timeframes of the query string
Timeframes == {<<"d","a","y">>, <<"w","e","e","k">>, <<"m","o","n","t","h">>, <<"q","u","a","r","t","e","r">>, <<"y","e","a","r">>, <<"c","u","s","t","o","m">>}
\* customStart and customEnd of the query string; NoDate when left out
CustomDays ==
    { [y |-> 2024, m |-> 2, d |-> 20], [y |-> 2024, m |-> 3, d |-> 1],
      [y |-> 2024, m |-> 12, d |-> 25], [y |-> 2025, m |-> 1, d |-> 1],
      [y |-> 2025, m |-> 1, d |-> 5] }
CustomBounds == CustomDays \cup {NoDate}

PeriodsInit ==
    /\ bootDay \in ProbeDays
    /\ \E c \in ProbeClocks : now = c.time /\ tz = c.tz
    /\ Quiescent
    /\ \E timeframe \in Timeframes :
       \E customStart \in CustomBounds, customEnd \in CustomBounds :
           /\ timeframe # <<"c","u","s","t","o","m">> => customStart = NoDate /\ customEnd = NoDate
           /\ probe = [fn |-> "getAnalyticsPeriods", timeframe |-> timeframe,
                       customStart |-> customStart, customEnd |-> customEnd,
                       applied |-> FALSE, result |-> NoPeriods]

\* getAnalytics computes the two periods of its queries
ComputePeriods ==
    /\ probe.fn = "getAnalyticsPeriods" /\ ~probe.applied
    /\ probe' = [probe EXCEPT !.applied = TRUE,
                              !.result = getAnalyticsPeriods(probe.timeframe,
                                             probe.customStart, probe.customEnd, Clock)]
    /\ UNCHANGED << bootDay, tz, now, conversationCache, expenses, pc, req, res, turn,
                    call, turns, failures >>

PeriodsSpec == PeriodsInit /\ [][ComputePeriods]_vars


(***************************************************************************)
(* The category comparison of getAnalytics on its own: the snapshots of    *)
(* the current and of the previous period are drawn from bounded sets      *)
(***************************************************************************)
\* the documents of a snapshot whose amount parseFloat reads as a number,
\* with that number as their amount
validAmounts(snapshot) ==
    LET valid == SelectSeq(snapshot, LAMBDA doc : ~parseFloat(doc.amount).nan)
    IN  [i \in 1..Len(valid) |->
            [category |-> valid[i].category, amount |-> parseFloat(valid[i].amount).n]]

\* totals of calculateCategoryTotals: its keys in insertion order and the
\* sum of the valid amounts under each key
calculateCategoryTotals(snapshot) ==
    LET docs == validAmounts(snapshot)
        keys == CategoryKeys(docs, << >>)
    IN  [keys |-> keys,
         totals |-> [cat \in {keys[k] : k \in 1..Len(keys)} |-> CategoryTotal(docs, cat)]]

\* Math.round(((current - previous) / previous) * 10000) / 100 in hundredths
\* of a percent for previous > 0, Infinity for a category that is new
Percent(hundredths) == [infinite |-> FALSE, hundredths |-> hundredths]
catPercentChange(currentValue, previousValue) ==
    IF previousValue > 0
    THEN Percent((2 * (currentValue - previousValue) * 10000 + previousValue)
                     \div (2 * previousValue))
    ELSE IF currentValue > 0 THEN [infinite |-> TRUE, hundredths |-> 0]
    ELSE Percent(0)

\* categoryComparison of getAnalytics: one entry per key of the current
\* totals in the order of categoryBreakdown, then one entry per key of the
\* previous totals for which !currentCategoryTotals[key] holds
categoryComparison(currentPeriodSnapshot, previousPeriodSnapshot) ==
    LET current == calculateCategoryTotals(currentPeriodSnapshot)
        previous == calculateCategoryTotals(previousPeriodSnapshot)
        categoryBreakdown ==
            SortDescending([k \in 1..Len(current.keys) |->
                               [cat |-> current.keys[k],
                                amt |-> current.totals[current.keys[k]]]])
        previousValue(name) ==
            IF name \in DOMAIN previous.totals THEN previous.totals[name] ELSE 0
        missing ==
            SelectSeq(previous.keys, LAMBDA name :
                name \notin DOMAIN current.totals \/ current.totals[name] = 0)
    IN  [k \in 1..Len(categoryBreakdown) |->
            [name |-> categoryBreakdown[k].cat,
             currentValue |-> categoryBreakdown[k].amt,
             previousValue |-> previousValue(categoryBreakdown[k].cat),
             percentChange |-> catPercentChange(categoryBreakdown[k].amt,
                                   previousValue(categoryBreakdown[k].cat))]]
        \o
        [k \in 1..Len(missing) |->
            [name |-> missing[k], currentValue |-> 0,
             previousValue |-> previous.totals[missing[k]],
             percentChange |-> Percent(-10000)]]

\* largest number of documents in the snapshot of a period
MaxPeriodDocs == 2
\* amounts as stored: numbers, and a string that is not a number
AnalyticsAmounts == {Num(0), Num(10), Str(<<"a","b","c">>)}
AnalyticsCategories == {<<"T","r","a","v","e","l">>, <<"G","r","o","c","e","r","i","e","s">>}
AnalyticsDocs ==
    { [amount |-> a, category |-> c] : a \in AnalyticsAmounts, c \in AnalyticsCategories }
PeriodSnapshots == UNION { [1..n -> AnalyticsDocs] : n \in 0..MaxPeriodDocs }

ComparisonInit ==
    /\ bootDay \in BootDays
    /\ tz \in TimezoneOffsets
    /\ now \in BootTimes
    /\ Quiescent
    /\ \E currentDocs \in PeriodSnapshots, previousDocs \in PeriodSnapshots :
           probe = [fn |-> "categoryComparison", current |-> currentDocs,
                    previous |-> previousDocs, applied |-> FALSE, result |-> << >>]

\* getAnalytics processes the two snapshots into categoryComparison
Compare ==
    /\ probe.fn = "categoryComparison" /\ ~probe.applied
    /\ probe' = [probe EXCEPT !.applied = TRUE,
                              !.result = categoryComparison(probe.current, probe.previous)]
    /\ UNCHANGED << bootDay, tz, now, conversationCache, expenses, pc, req, res, turn,
                    call, turns, failures >>

ComparisonSpec == ComparisonInit /\ [][Compare]_vars


(***************************************************************************)
(* The context step and the branch on the intent on their own: the same    *)
(* message and intent are routed from two contents of the user's entry     *)
(***************************************************************************)
\* the content of the user's entry before the turn: absent, or present with
\* any lastIntent and lastQuery, one minute old or expired by 1 ms
PriorContexts(clock) ==
    { [present |-> FALSE, context |-> NoContext] }
    \cup { [present |-> TRUE,
            context |-> [lastIntent |-> i, lastQuery |-> q, timestamp |-> clock - age]] :
               i \in {Null, <<"a","d","d","_","e","x","p","e","n","s","e">>, <<"q","u","e","r","y">>, <<"c","h","i","t","c","h","a","t">>},
               q \in {Null, <<"T","r","a","v","e","l"," ","e","x","p","e","n","s","e","s"," ","l","a","s","t"," ","m","o","n","t","h">>},
               age \in {60 * 1000, ExpiryMs + 1} }

\* the message is a string, and the intent a value detectIntent can return
RouteInit ==
    /\ bootDay \in BootDays
    /\ tz \in TimezoneOffsets
    /\ now \in BootTimes
    /\ expenses = << >> /\ pc = "idle" /\ req = NoRequest /\ res = << >>
    /\ turn = NewTurn /\ call = NoCall /\ turns = 0 /\ failures = 0
    /\ \E prior \in PriorContexts(now), other \in PriorContexts(now) :
       \E message \in (Messages \ {Undefined}) \cup {<<"m","a","r","c","h">>, <<" ","M","a","r"," ">>},
          intent \in {<<"a","d","d","_","e","x","p","e","n","s","e">>, <<"q","u","e","r","y">>, <<"c","h","i","t","c","h","a","t">>, <<"d","e","l","e","t","e","_","a","l","l">>} :
           /\ conversationCache = IF prior.present THEN FirstUser :> prior.context
                                  ELSE << >>
           /\ probe = [fn |-> "routeOf", message |-> message, intent |-> intent,
                       prior |-> prior, other |-> other, applied |-> FALSE,
                       result |-> NoRoute, otherResult |-> NoRoute]

\* the context step and the branch of interactWithChatbot, from the entry
\* in the cache and from the other content of the entry
RouteTurn ==
    /\ probe.fn = "routeOf" /\ ~probe.applied
    /\ LET contextStep(prior) ==
               LET context == IF prior.present THEN prior.context ELSE NewContext
               IN  refreshTimestamp(IF Expired(context)
                                    THEN [context EXCEPT !.lastIntent = Null,
                                                         !.lastQuery = Null]
                                    ELSE context)
       IN  /\ probe' = [probe EXCEPT
                  !.applied = TRUE,
                  !.result = routeOf(probe.intent, probe.message, contextStep(probe.prior)),
                  !.otherResult = routeOf(probe.intent, probe.message,
                                          contextStep(probe.other))]
           /\ conversationCache' =
                  FirstUser :> [contextStep(probe.prior) EXCEPT
                                   !.lastIntent = probe.intent,
                                   !.lastQuery = IF probe.intent = <<"q","u","e","r","y">>
                                                 THEN probe.message ELSE @]
    /\ UNCHANGED << bootDay, tz, now, expenses, pc, req, res, turn, call, turns, failures >>

RouteSpec == RouteInit /\ [][RouteTurn]_vars


(***************************************************************************)
(* Concurrent turns of one user: each turn is a call of                    *)
(* interactWithChatbot, and the turns interleave at its awaits.  The       *)
(* context objects are kept apart from the Map that refers to one of them: *)
(* probe.objects are the objects created, probe.entry is the one the Map   *)
(* holds for the user, and conversationCache is the Map as get reads it.   *)
(***************************************************************************)
\* number of turns in flight and of lapses of time between their steps
ConcurrentTurns == 2
MaxElapses == 2

\* an entry set for every turn, without the test of has
needsEntryAlways(cache, u) == TRUE
\* !conversationCache.has(userId)
needsEntry(cache, u) == u \notin DOMAIN cache

\* the turns have been called and await handleMonthNameResponse; the Map
\* is empty or holds a fresh entry of an earlier turn
RaceInit ==
    /\ bootDay \in BootDays
    /\ tz \in TimezoneOffsets
    /\ now \in BootTimes
    /\ expenses = << >> /\ pc = "idle" /\ req = NoRequest /\ res = << >>
    /\ turn = NewTurn /\ call = NoCall /\ turns = 0 /\ failures = 0
    /\ \E objects \in { << >>, << [lastIntent |-> <<"q","u","e","r","y">>,
                                   lastQuery |-> <<"T","r","a","v","e","l"," ","e","x","p","e","n","s","e","s"," ","l","a","s","t"," ","m","o","n","t","h">>,
                                   timestamp |-> now - 60 * 1000] >> } :
       \E messages \in [1..ConcurrentTurns ->
                           {<<"I"," ","s","p","e","n","t"," ","2","0","0"," ","o","n"," ","g","r","o","c","e","r","i","e","s"," ","t","o","d","a","y">>, <<"s","u","m","m","a","r","y"," ","f","o","r"," ","t","h","e"," ","m","o","n","t","h">>}] :
           /\ conversationCache = IF objects = << >> THEN << >>
                                  ELSE FirstUser :> objects[1]
           /\ probe = [fn |-> "race", objects |-> objects, entry |-> Len(objects),
                       turns |-> [t \in 1..ConcurrentTurns |->
                                     [pc |-> "start", message |-> messages[t],
                                      context |-> 0, intent |-> Undefined,
                                      refreshed |-> 0, responses |-> 0]],
                       classifiedLast |-> 0, refreshedLast |-> 0, elapsed |-> 0]

\* turn t resumes after handleMonthNameResponse: it gets or creates the
\* user's entry, clears it when expired, refreshes its timestamp and calls
\* detectIntent
TurnContext(t) ==
    /\ probe.fn = "race" /\ probe.turns[t].pc = "start"
    /\ LET created == needsEntry(conversationCache, FirstUser)
           objects == IF created THEN Append(probe.objects, NewContext)
                      ELSE probe.objects
           entry == IF created THEN Len(objects) ELSE probe.entry
           context == objects[entry]
           refreshed == refreshTimestamp(IF Expired(context)
                                         THEN [context EXCEPT !.lastIntent = Null,
                                                              !.lastQuery = Null]
                                         ELSE context)
       IN  /\ probe' = [probe EXCEPT
                  !.objects = [objects EXCEPT ![entry] = refreshed],
                  !.entry = entry,
                  !.turns[t] = [@ EXCEPT !.pc = "detectIntent", !.context = entry,
                                         !.refreshed = refreshed.timestamp],
                  !.refreshedLast = t]
           /\ conversationCache' = FirstUser :> refreshed
    /\ UNCHANGED << bootDay, tz, now, expenses, pc, req, res, turn, call, turns, failures >>

\* detectIntent returns to turn t: the intent is stored in the context
\* object the turn holds, and the handler of the intent is called
TurnClassified(t) ==
    /\ probe.fn = "race" /\ probe.turns[t].pc = "detectIntent"
    /\ \E c \in { [status |-> "thrown", result |-> << >>] }
                \cup { [status |-> "ok", result |-> r] : r \in IntentReplies } :
       \E intent \in {detectIntentResult(c)} :
          LET held == probe.turns[t].context
              message == probe.turns[t].message
              route == routeOf(intent, message, probe.objects[held])
              stored == [probe.objects[held] EXCEPT
                            !.lastIntent = intent,
                            !.lastQuery = IF intent = <<"q","u","e","r","y">> THEN message ELSE @]
              objects == [probe.objects EXCEPT ![held] = stored]
          IN  /\ probe' = [probe EXCEPT
                     !.objects = objects,
                     !.turns[t] = [@ EXCEPT !.pc = route.handler, !.intent = intent],
                     !.classifiedLast = t]
              /\ conversationCache' = FirstUser :> objects[probe.entry]
    /\ UNCHANGED << bootDay, tz, now, expenses, pc, req, res, turn, call, turns, failures >>

\* the handler of turn t returns and the turn sends its response
TurnResponds(t) ==
    /\ probe.fn = "race"
    /\ probe.turns[t].pc \in {"extractExpenseDetails", "queryExpenses",
                              "generateChitchatResponse"}
    /\ probe' = [probe EXCEPT !.turns[t] = [@ EXCEPT !.pc = "done",
                                                     !.responses = @ + 1]]
    /\ UNCHANGED << bootDay, tz, now, conversationCache, expenses, pc, req, res, turn,
                    call, turns, failures >>

\* time passes while the turns await
Elapse ==
    /\ probe.fn = "race" /\ probe.elapsed < MaxElapses
    /\ \E t \in 1..ConcurrentTurns : probe.turns[t].pc # "done"
    /\ \E delay \in Delays : now' = now + delay
    /\ probe' = [probe EXCEPT !.elapsed = @ + 1]
    /\ UNCHANGED << bootDay, tz, conversationCache, expenses, pc, req, res, turn, call,
                    turns, failures >>

RaceTurnStep ==
    \E t \in 1..ConcurrentTurns :
        \/ TurnContext(t)
        \/ TurnClassified(t)
        \/ TurnResponds(t)
RaceNext == RaceTurnStep \/ Elapse
\* every await of a turn eventually resumes it
RaceSpec == RaceInit /\ [][RaceNext]_vars /\ WF_vars(RaceTurnStep)


(***************************************************************************)
(* Properties                                                              *)
(***************************************************************************)
Intents == {<<"a","d","d","_","e","x","p","e","n","s","e">>, <<"q","u","e","r","y">>, <<"c","h","i","t","c","h","a","t">>}
Busy == pc \notin {"idle", "done"}
\* the message is a string that contains one of the 24 month words
ContainsMonth(message) ==
    /\ message # Undefined
    /\ Bind(toLowerCase(message), LAMBDA m :
                \E i \in 1..12 : includes(m, months[i]) \/ includes(m, monthAbbreviations[i]))
\* the message is a string that contains no month word
PlainMessage(message) == message # Undefined /\ ~ContainsMonth(message)
\* the number 1..12 of the month a month word names
MonthNumber(word) ==
    Bind(toLowerCase(word), LAMBDA w :
             CHOOSE i \in 1..12 : w \in {months[i], monthAbbreviations[i]})
IsMonthWord(word) ==
    Bind(toLowerCase(word), LAMBDA w :
             \E i \in 1..12 : w \in {months[i], monthAbbreviations[i]})

\* C1: detectIntent returns one of add_expense, query and chitchat for every
\* outcome of the gateway call, so the lastIntent of a context is null or
\* one of these three.
C1_IntentInSet ==
    /\ turn.intent \in Intents \cup {Undefined}
    /\ \A u \in DOMAIN conversationCache :
           conversationCache[u].lastIntent \in Intents \cup {Null}

\* C2: every turn eventually sends exactly one response: 200 with a
\* message, 400 for a rejected expense, or 500 with the fixed sentence; a
\* failing insert is attempted once and yields the 500.
C2_Statuses ==
    /\ Len(res) <= 1
    /\ turn.adds <= 1
    /\ pc = "done" =>
           /\ Len(res) = 1
           /\ \/ res[1].status = 200 /\ res[1].success
              \/ res[1].status = 400 /\ turn.intent = <<"a","d","d","_","e","x","p","e","n","s","e">>
                                     /\ Len(expenses) = turn.stored
              \/ res[1].status = 500 /\ res[1].message.kind = "trouble"
           /\ (turn.adds = 1 /\ Len(expenses) = turn.stored) => res[1].status = 500
    /\ Busy => res = << >>
C2_OneResponse == [] C2_Statuses /\ (Busy ~> pc = "done")
\* a turn ended by a failing insert
C2_Witness ==
    pc = "done" /\ turn.adds = 1 /\ Len(expenses) = turn.stored /\ res[1].status = 500

\* the checks of the add_expense branch, stated on the details returned by
\* extractExpenseDetails
HasError(details) == details.error \notin {Undefined, Null, << >>}
AmountIsNumber(amount) ==
    \/ amount.t = "number"
    \/ amount.t = "string"
         /\ \E i \in 1..Len(amount.s) :
                /\ amount.s[i] \in {"0", "1", "2", "3", "4", "5", "6", "7", "8", "9"}
                /\ \A j \in 1..(i - 1) :
                       amount.s[j] = " " \/ (j = i - 1 /\ amount.s[j] = "-")
Complete(details) ==
    /\ AmountIsNumber(details.amount)
    /\ details.category \notin {Undefined, Null, << >>}
    /\ details.date # NoDate
    /\ details.title \notin {Undefined, Null, << >>}
AddBranchDone == pc = "done" /\ turn.intent = <<"a","d","d","_","e","x","p","e","n","s","e">>
Inserted == Len(expenses) - turn.stored

\* C3 as stated: on the add_expense branch a record is inserted if and only
\* if extraction returned no error and the expense is complete, and the
\* response is then the 200 confirmation; an error gives 400 with that
\* error, an incomplete expense 400 'Incomplete expense information.', the
\* store unchanged in both.
C3_InsertIffValid ==
    AddBranchDone =>
        /\ Inserted = 1 <=> (~HasError(turn.details) /\ Complete(turn.details))
        /\ Inserted \in {0, 1}
        /\ Inserted = 1 => res[1].status = 200 /\ res[1].message.kind = "added"
        /\ HasError(turn.details) =>
               res[1] = BadRequest(turn.details.error) /\ Inserted = 0
        /\ (~HasError(turn.details) /\ ~Complete(turn.details)) =>
               res[1] = BadRequest(<<"I","n","c","o","m","p","l","e","t","e"," ","e","x","p","e","n","s","e"," ","i","n","f","o","r","m","a","t","i","o","n",".">>) /\ Inserted = 0

\* C3 amended: the insert is attempted, once, if and only if extraction
\* returned no error and the expense is complete.  If the store accepts it,
\* exactly one record with the validated fields is inserted and the
\* response is the 200 confirmation; if the store rejects it, nothing is
\* inserted and the response is the 500.  The two 400 cases are as stated.
C3_InsertAttemptIffValid ==
    AddBranchDone =>
        /\ turn.adds = 1 <=> (~HasError(turn.details) /\ Complete(turn.details))
        /\ Inserted \in {0, 1} /\ Inserted <= turn.adds
        /\ Inserted = 1 =>
               /\ res[1].status = 200 /\ res[1].message.kind = "added"
               /\ expenses[Len(expenses)].userId = req.userId
               /\ expenses[Len(expenses)].category = turn.details.category
               /\ expenses[Len(expenses)].date = turn.details.date
               /\ expenses[Len(expenses)].title = turn.details.title
        /\ (turn.adds = 1 /\ Inserted = 0) => res[1] = Trouble
        /\ HasError(turn.details) =>
               res[1] = BadRequest(turn.details.error) /\ Inserted = 0
        /\ (~HasError(turn.details) /\ ~Complete(turn.details)) =>
               res[1] = BadRequest(<<"I","n","c","o","m","p","l","e","t","e"," ","e","x","p","e","n","s","e"," ","i","n","f","o","r","m","a","t","i","o","n",".">>) /\ Inserted = 0
\* an expense whose amount is the string "12abc" has been inserted
C3_Witness ==
    /\ AddBranchDone /\ Inserted = 1 /\ res[1].status = 200
    /\ turn.details.amount.t = "string" /\ expenses[Len(expenses)].amount = 12


\* C4: one callGroqApi call makes at most 3 attempts, returns the result of
\* the first successful one and attempts nothing after it, waits 1 s before
\* the second and 2 s before the third attempt and not after the last, and
\* throws when all 3 fail; it never returns without a response.
C4_CallShape ==
    call.status # "none" =>
        /\ call.attempts <= 3
        /\ Len(call.slept) <= 2
        /\ \A i \in DOMAIN call.slept : call.slept[i] = << 1000, 2000 >>[i]
        /\ call.status = "pending" => call.attempts = Len(call.slept)
        /\ call.status = "ok" =>
               /\ call.attempts = Len(call.slept) + 1
               /\ pc \in GroqCallers => call.result \in Replies
        /\ call.status = "thrown" => call.attempts = 3 /\ call.slept = << 1000, 2000 >>
\* a step of the retry loop: a wait lasts as long as the entry added to
\* slept; a call that has returned or thrown makes no further attempt
C4_CallStep ==
    /\ (call.status = "pending" /\ call'.status = "pending"
            /\ call'.attempts = call.attempts + 1) =>
           now' - now = call'.slept[Len(call'.slept)]
    /\ (call.status = "pending" /\ call'.status \in {"ok", "thrown"}) => now' = now
    /\ call.status \in {"ok", "thrown"} =>
           call' = call \/ call'.attempts = 0
C4_Retries == [] C4_CallShape /\ [][C4_CallStep]_vars
\* a call that succeeded on its third attempt
C4_Witness == call.status = "ok" /\ call.attempts = 3 /\ call.slept = << 1000, 2000 >>

\* C5: a message containing a month name or abbreviation is answered by
\* queryExpenses with status 200; detectIntent is not called, no expense is
\* inserted and neither the add_expense nor the chitchat branch runs.
C5_MonthFastPath ==
    (pc # "idle" /\ ContainsMonth(req.message)) =>
        /\ turn.via = "month"
        /\ pc \in {"queryExpenses", "mapQuery", "get", "done"}
        /\ turn.classified = 0 /\ turn.intent = Undefined
        /\ turn.adds = 0 /\ Len(expenses) = turn.stored
        /\ pc = "done" =>
               /\ res[1].status = 200
               /\ res[1].message.kind \in {"summary", "noExpenses", "apology"}
\* a message that contains "mar" only inside the word "summary"
C5_Witness ==
    /\ pc = "done" /\ req.message = <<"s","u","m","m","a","r","y"," ","f","o","r"," ","t","h","e"," ","m","o","n","t","h">>
    /\ res[1].status = 200 /\ turn.gets = 1

\* the user's previous turn was classified as a query
AfterQuery ==
    /\ req.userId \in DOMAIN conversationCache
    /\ conversationCache[req.userId].lastIntent = <<"q","u","e","r","y">>
    /\ turns > 1
BareMonth(message) == message # Undefined /\ IsMonthWord(trim(message))
MonthRange(year, month) ==
    [threw |-> FALSE,
     from |-> [y |-> year, m |-> month, d |-> 1],
     to |-> [y |-> year, m |-> month,
             d |-> IF month = 2
                   THEN (IF (year % 4 = 0 /\ year % 100 # 0) \/ year % 400 = 0
                         THEN 29 ELSE 28)
                   ELSE IF month \in {4, 6, 9, 11} THEN 30 ELSE 31]]

\* C6: after a turn classified as query, a message that is exactly a month
\* name or abbreviation is answered by the aggregation over the 1st to the
\* last day of that month of the current year, without a call of the
\* classifier.  (Stated for the turns in which the model's reply names the
\* month of the message as the period.)
C6_FollowUpMonth ==
    (AfterQuery /\ BareMonth(req.message) /\ pc = "get"
        /\ IsMonthWord(turn.time_period)
        /\ MonthNumber(turn.time_period) = MonthNumber(trim(req.message))) =>
        /\ turn.classified = 0
        /\ turn.range = MonthRange(Clock.local.y, MonthNumber(trim(req.message)))


\* the cache holds an entry for the user of the turn, refreshed in the turn
Refreshed ==
    /\ req.userId \in DOMAIN conversationCache
    /\ conversationCache[req.userId].timestamp >= turn.began

\* C7 as stated: after any completed turn, the month-name fast path
\* included, the cache holds an entry for the user whose timestamp the turn
\* refreshed.
C7_RefreshedEveryTurn == (pc = "done" /\ req.message # Undefined) => Refreshed

\* C7 amended: after a completed turn that reached the context step (its
\* message is a string containing no month name) the cache holds an entry
\* for the user whose timestamp the turn refreshed; a turn answered by the
\* month-name fast path, or failing on a message that is not a string,
\* leaves the cache as it was; entries are never removed.
C7_CacheStep ==
    /\ DOMAIN conversationCache \subseteq DOMAIN conversationCache'
    /\ ~PlainMessage(req'.message) => conversationCache' = conversationCache
C7_RefreshedPastFastPath ==
    /\ [] ((pc = "done" /\ PlainMessage(req.message)) => Refreshed)
    /\ [][C7_CacheStep]_vars
\* the second turn of a user, 31 minutes after the first, has completed
\* and the other user's entry is still there
C7_Witness ==
    /\ pc = "done" /\ PlainMessage(req.message) /\ Refreshed
    /\ turn.context.timestamp > 0
    /\ turn.began - turn.context.timestamp > 30 * 60 * 1000

\* C8: at the context step lastIntent and lastQuery of an existing context
\* are reset to null if and only if more than 30 minutes have passed since
\* its timestamp (not at exactly 30 minutes); the timestamp is then set to
\* the current time and the entry is kept.
C8_ExpiryStep ==
    (pc = "context" /\ pc' # "context" /\ req.userId \in DOMAIN conversationCache) =>
        LET old == conversationCache[req.userId]
            new == conversationCache'[req.userId]
        IN  /\ req.userId \in DOMAIN conversationCache'
            /\ new.timestamp = now
            /\ now - old.timestamp > 30 * 60 * 1000 =>
                   new.lastIntent = Null /\ new.lastQuery = Null
            /\ now - old.timestamp <= 30 * 60 * 1000 =>
                   new.lastIntent = old.lastIntent /\ new.lastQuery = old.lastQuery
C8_Expiry == [][C8_ExpiryStep]_vars
\* a context with a query in it has just been cleared
C8_Witness ==
    /\ pc = "detectIntent" /\ turn.cleared
    /\ turn.context.lastIntent = <<"q","u","e","r","y">> /\ turn.context.lastQuery # Null
    /\ conversationCache[req.userId].lastIntent = Null
    /\ conversationCache[req.userId].lastQuery = Null
    /\ conversationCache[req.userId].timestamp = now

\* the gateway call of queryExpenses has failed after all its retries
QueryCallThrown == pc = "queryExpenses" /\ call.status = "thrown"

\* C9 as stated: when the gateway call of queryExpenses fails after all
\* retries, the interpreter derives the parameters with the keyword scan
\* and still executes the aggregation.
C9_FallbackStep ==
    (QueryCallThrown /\ pc' # pc) => (turn'.fallback /\ pc' \in {"mapQuery", "get"})
C9_GatewayFailureFallsBack == [][C9_FallbackStep]_vars

\* word occurs in the lower-cased message
ScanHas(message, word) == Bind(toLowerCase(message), LAMBDA m : includes(m, word))
FirstCategoryIn(message) ==
    LET hit == {i \in 1..15 : ScanHas(message, toLowerCase(EXPENSE_CATEGORIES[i]))}
    IN  IF hit = {} THEN Null
        ELSE EXPENSE_CATEGORIES[CHOOSE i \in hit : \A j \in hit : i <= j]

\* C10: when the reply to queryExpenses is not JSON, category is the first
\* fixed category whose name occurs in the message, else null, and
\* time_period comes from the message: today, yesterday, week, month, or
\* the month the message names, 'this month' when nothing matches; the
\* aggregation then runs with these parameters.
C10_KeywordScan ==
    (turn.fallback /\ pc \in {"mapQuery", "get"}) =>
        /\ turn.category = FirstCategoryIn(turn.qmsg)
        /\ ScanHas(turn.qmsg, <<"t","o","d","a","y">>) => turn.time_period = <<"t","o","d","a","y">>
        /\ (ContainsMonth(turn.qmsg) /\ ~ScanHas(turn.qmsg, <<"t","o","d","a","y">>)
                /\ ~ScanHas(turn.qmsg, <<"y","e","s","t","e","r","d","a","y">>) /\ ~ScanHas(turn.qmsg, <<"w","e","e","k">>)) =>
               /\ IsMonthWord(turn.time_period)
               /\ \E i \in 1..12 :
                      /\ MonthNumber(turn.time_period) = i
                      /\ ScanHas(turn.qmsg, months[i]) \/ ScanHas(turn.qmsg, monthAbbreviations[i])
        /\ (~ContainsMonth(turn.qmsg) /\ ~ScanHas(turn.qmsg, <<"t","o","d","a","y">>)
                /\ ~ScanHas(turn.qmsg, <<"y","e","s","t","e","r","d","a","y">>) /\ ~ScanHas(turn.qmsg, <<"w","e","e","k">>)
                /\ ~ScanHas(turn.qmsg, <<"m","o","n","t","h">>)) =>
               turn.time_period = <<"t","h","i","s"," ","m","o","n","t","h">>
        /\ turn.range = processDatePeriod(turn.time_period, Clock)


\* the user has a document in the range and category the query asks for
SomeExpenseMatches ==
    \E i \in DOMAIN expenses :
        /\ expenses[i].userId = req.userId
        /\ DateLeq(turn.range.from, expenses[i].date)
        /\ DateLeq(expenses[i].date, turn.range.to)
        /\ turn.categoryFilter # Null => expenses[i].category = turn.categoryFilter
\* the reply to queryExpenses parses but carries no time_period (an object
\* without the field, or a value that is no object)
LacksTimePeriod ==
    /\ call.status = "ok" /\ call.result.form \in {"json", "wrapped"}
    /\ call.result.value.time_period = Undefined
\* the sentence a step of queryExpenses hands to res.json
SentenceKinds(kinds) ==
    /\ pc' = "done" /\ Len(res') = 1 /\ res'[1].status = 200
    /\ res'[1].message.kind \in kinds

\* C11: queryExpenses never throws to its caller: the turn that called it
\* answers 200 with one of its sentences, the 'No expenses found' sentence
\* when the aggregation is empty, the apology when a step throws (a failed
\* gateway call, a parsed reply lacking time_period, a failed store query).
C11_SentenceStep ==
    /\ (pc = "queryExpenses" /\ pc' # pc) =>
           /\ (call.status = "thrown" \/ LacksTimePeriod) <=> pc' = "done"
           /\ pc' = "done" => SentenceKinds({"apology"})
    /\ (pc = "get" /\ pc' # pc) =>
           IF SomeExpenseMatches THEN SentenceKinds({"summary", "apology"})
                                 ELSE SentenceKinds({"noExpenses", "apology"})
C11_Answered ==
    (pc = "done" /\ turn.via # "none") =>
        /\ Len(res) = 1 /\ res[1].status = 200
        /\ res[1].message.kind \in {"summary", "noExpenses", "apology"}
C11_NeverThrows == [] C11_Answered /\ [][C11_SentenceStep]_vars
\* the reply parsed but lacked time_period, and the turn apologized
C11_Witness ==
    /\ pc = "done" /\ turn.via = "query" /\ LacksTimePeriod /\ turn.gets = 0
    /\ res[1].status = 200 /\ res[1].message.kind = "apology"


\* sum of the amounts of the first k documents that are of category c, or
\* of all of them when c is Null
RECURSIVE Subtotal(_, _, _)
Subtotal(docs, c, k) ==
    IF k = 0 THEN 0
    ELSE Subtotal(docs, c, k - 1)
         + (IF c = Null \/ docs[k].category = c THEN docs[k].amount ELSE 0)
\* the summary of a snapshot that is not empty has been computed
Summarized == probe.fn = "summary" /\ probe.applied /\ probe.docs # << >>

\* C12: the summary of n > 0 records reports the sum of the n amounts and
\* the count n; the breakdown is included if and only if there is no
\* category filter and n > 1; it lists at most 3 categories, each with the
\* exact sum of its amounts, in non-increasing order, and no category left
\* out has a larger subtotal than a listed one.
C12_Summary ==
    Summarized =>
        LET docs == probe.docs
            n == Len(docs)
            r == probe.result
            listed == {r.top[i].cat : i \in DOMAIN r.top}
            present == {docs[k].category : k \in 1..n}
        IN  /\ r.kind = "summary"
            /\ r.total = Subtotal(docs, Null, n)
            /\ r.count = n
            /\ r.top # << >> <=> (probe.categoryFilter = Null /\ n > 1)
            /\ Len(r.top) <= 3
            /\ listed \subseteq present
            /\ \A i \in DOMAIN r.top :
                   /\ r.top[i].amt = Subtotal(docs, r.top[i].cat, n)
                   /\ \A j \in DOMAIN r.top :
                          i < j => (r.top[i].amt >= r.top[j].amt
                                    /\ r.top[i].cat # r.top[j].cat)
                   /\ \A c \in present \ listed :
                          Subtotal(docs, c, n) <= r.top[i].amt
            /\ (r.top # << >> /\ present # listed) => Len(r.top) = 3
\* 100 and 300 in Food & Dining and 50 in Travel: total 450, 3 transactions,
\* Food & Dining 400 then Travel 50
C12_Witness ==
    /\ Summarized /\ probe.categoryFilter = Null /\ Len(probe.docs) = 3
    /\ probe.docs[1].amount = 50 /\ probe.docs[1].category = <<"T","r","a","v","e","l">>
    /\ probe.docs[2].amount = 100 /\ probe.docs[2].category = <<"F","o","o","d"," ","&"," ","D","i","n","i","n","g">>
    /\ probe.docs[3].amount = 300 /\ probe.docs[3].category = <<"F","o","o","d"," ","&"," ","D","i","n","i","n","g">>
    /\ probe.result.total = 450 /\ probe.result.count = 3
    /\ probe.result.top = << [cat |-> <<"F","o","o","d"," ","&"," ","D","i","n","i","n","g">>, amt |-> 400],
                             [cat |-> <<"T","r","a","v","e","l">>, amt |-> 50] >>

\* the fixed categories, written out
FixedCategories ==
    { <<"F","o","o","d"," ","&"," ","D","i","n","i","n","g">>, <<"T","r","a","n","s","p","o","r","t","a","t","i","o","n">>, <<"S","h","o","p","p","i","n","g">>, <<"B","i","l","l","s"," ","&"," ","U","t","i","l","i","t","i","e","s">>,
      <<"E","n","t","e","r","t","a","i","n","m","e","n","t">>, <<"T","r","a","v","e","l">>, <<"E","d","u","c","a","t","i","o","n">>, <<"H","e","a","l","t","h"," ","&"," ","F","i","t","n","e","s","s">>,
      <<"P","e","r","s","o","n","a","l"," ","C","a","r","e">>, <<"H","o","m","e"," ","&"," ","R","e","n","t">>, <<"G","r","o","c","e","r","i","e","s">>, <<"I","n","v","e","s","t","m","e","n","t","s">>,
      <<"I","n","s","u","r","a","n","c","e">>, <<"G","i","f","t","s"," ","&"," ","D","o","n","a","t","i","o","n","s">>, <<"O","t","h","e","r">> }
\* the value mapToPreDefinedCategory has returned in this step, where the
\* caller keeps it: the category filter of a query, the category of
\* extracted details that are an object
MappedHere(returned) ==
    \/ pc = "mapQuery" /\ pc' # pc /\ returned = turn'.categoryFilter
    \/ /\ pc = "mapExpense" /\ pc' # pc /\ turn.details.type = "object"
       /\ returned = turn'.details.category

\* C13: mapToPreDefinedCategory returns a member of the 15 fixed categories:
\* the trimmed answer of the model when that is exactly a member, and
\* 'Other' for every other answer and for a failed gateway call.
C13_MapStep ==
    \A returned \in FixedCategories \cup {turn'.categoryFilter, turn'.details.category} :
        MappedHere(returned) =>
            /\ returned \in FixedCategories
            /\ IF call.status = "ok" /\ trim(call.result) \in FixedCategories
               THEN returned = trim(call.result)
               ELSE returned = <<"O","t","h","e","r">>
C13_MapsIntoFixedSet == [][C13_MapStep]_vars
\* the answer " Groceries " has been trimmed and returned as the filter
C13_Witness == pc = "get" /\ turn.categoryFilter = <<"G","r","o","c","e","r","i","e","s">> /\ turn.category = <<"f","o","o","d">>

\* C14: every record the add_expense path inserts and every category filter
\* of queryExpenses carries one of the 15 fixed categories, whatever the
\* model replies.
C14_FixedCategories ==
    /\ \A i \in DOMAIN expenses : expenses[i].category \in FixedCategories
    /\ (pc \in {"get", "done"} /\ turn.categoryFilter # Null) =>
           turn.categoryFilter \in FixedCategories
\* the category phrase was answered with a text outside the set, or not at
\* all, and the record was inserted under 'Other'
C14_Witness ==
    /\ AddBranchDone /\ Inserted = 1
    /\ expenses[Len(expenses)].category = <<"O","t","h","e","r">>
    /\ res[1].status = 200 /\ res[1].message.category = <<"O","t","h","e","r">>

\* C15: every record the add_expense path inserts has a non-negative
\* amount, whatever amount the model extracts.
C15_NonNegativeAmounts == \A i \in DOMAIN expenses : expenses[i].amount >= 0

\* C16: the result of extractExpenseDetails is tagged: it carries a truthy
\* error and none of amount, category, date and title, or it carries no
\* truthy error; never both an error and expense fields.
C16_TaggedResult ==
    (turn.details.type # "undefined" /\ Truthy(turn.details.error)) =>
        /\ turn.details.amount = NoValue
        /\ turn.details.category = Undefined
        /\ turn.details.date = NoDate
        /\ turn.details.title = Undefined

\* C17: when the gateway call of the chitchat step fails after all retries
\* the turn answers 200 with the fixed fallback sentence, never a 500.
C17_FallbackStep ==
    (pc = "generateChitchatResponse" /\ call.status = "thrown" /\ pc' # pc) =>
        /\ pc' = "done" /\ Len(res') = 1
        /\ res'[1].status = 200 /\ res'[1].success
        /\ res'[1].message = [kind |-> "chitchatFallback"]
C17_ChitchatFallback == [][C17_FallbackStep]_vars
\* a chitchat turn whose gateway call failed three times has answered
C17_Witness ==
    /\ pc = "done" /\ turn.intent = <<"c","h","i","t","c","h","a","t">> /\ turn.via = "none"
    /\ call.status = "thrown" /\ call.attempts = 3
    /\ res = << [status |-> 200, success |-> TRUE, message |-> [kind |-> "chitchatFallback"]] >>


\* processDatePeriod has been called, at a time when the local and the UTC
\* calendar date are the same, so that there is one current date
Resolved == probe.fn = "processDatePeriod" /\ probe.applied /\ Clock.local = Clock.utc
Today == Clock.local

\* C18: for each month name and abbreviation as the label and every current
\* year, processDatePeriod returns the 1st to the last day of that month of
\* the current year, February ending on the 29th exactly in Gregorian leap
\* years.
C18_MonthLabelRanges ==
    (Resolved /\ IsMonthWord(probe.period)) =>
        probe.result = MonthRange(Today.y, MonthNumber(probe.period))

\* C19: for every current date, 'last month' and 'previous month' give the
\* 1st to the last day of the previous calendar month.
C19_LastMonthRange ==
    (Resolved /\ probe.period \in {<<"l","a","s","t"," ","m","o","n","t","h">>, <<"p","r","e","v","i","o","u","s"," ","m","o","n","t","h">>}) =>
        probe.result = IF Today.m = 1 THEN MonthRange(Today.y - 1, 12)
                       ELSE MonthRange(Today.y, Today.m - 1)

\* C20: for every label of a present or past period (today, yesterday,
\* this/current week, this/current month, last/previous month, unrecognized
\* text) and every current date the range has from <= to.
C20_FromBeforeTo ==
    (Resolved /\ probe.period \in {<<"t","o","d","a","y">>, <<"y","e","s","t","e","r","d","a","y">>, <<"t","h","i","s"," ","w","e","e","k">>, <<"c","u","r","r","e","n","t"," ","w","e","e","k">>,
                                   <<"t","h","i","s"," ","m","o","n","t","h">>, <<"c","u","r","r","e","n","t"," ","m","o","n","t","h">>, <<"l","a","s","t"," ","m","o","n","t","h">>,
                                   <<"p","r","e","v","i","o","u","s"," ","m","o","n","t","h">>, <<"l","a","s","t"," ","7"," ","d","a","y","s">>, <<"n","e","x","t"," ","y","e","a","r">>}) =>
        /\ ~probe.result.threw
        /\ \/ probe.result.from.y < probe.result.to.y
           \/ /\ probe.result.from.y = probe.result.to.y
              /\ probe.result.from.m < probe.result.to.m
           \/ /\ probe.result.from.y = probe.result.to.y
              /\ probe.result.from.m = probe.result.to.m
              /\ probe.result.from.d <= probe.result.to.d


\* processDatePeriod has been called with a label no row of the table matches
Unrecognized ==
    /\ probe.fn = "processDatePeriod" /\ probe.applied
    /\ probe.period \in {<<"l","a","s","t"," ","7"," ","d","a","y","s">>, <<"n","e","x","t"," ","y","e","a","r">>}

PeriodsComputed ==
    /\ probe.fn = "getAnalyticsPeriods" /\ probe.applied
    /\ probe.timeframe = <<"c","u","s","t","o","m">> =>
           probe.customStart # NoDate /\ probe.customEnd # NoDate
\* the custom bounds are in order, or the timeframe is not custom
BoundsInOrder ==
    probe.timeframe = <<"c","u","s","t","o","m">> => DateLeq(probe.customStart, probe.customEnd)
PreviousAdjacent ==
    DayNum(probe.result.startDate) - DayNum(probe.result.previousEndDate) = 1
PreviousInOrder ==
    DateLeq(probe.result.previousStartDate, probe.result.previousEndDate)

\* C22: for each timeframe of getAnalytics (day, week, month, quarter, year,
\* custom with both bounds in order) and each current date, previousEndDate
\* is the calendar day before startDate, also across a year boundary, and
\* previousStartDate <= previousEndDate.
C22_PreviousPrecedes ==
    (PeriodsComputed /\ BoundsInOrder) => PreviousAdjacent /\ PreviousInOrder
\* C22 as stated, for custom bounds in any order: the previous period of a
\* custom range whose start is after its end has its start after its end
C22_PreviousPrecedesAnyBounds ==
    PeriodsComputed => PreviousAdjacent /\ PreviousInOrder
\* in the first quarter of 2025 the previous period ends on 2024-12-31
C22_Witness ==
    /\ PeriodsComputed /\ probe.timeframe = <<"q","u","a","r","t","e","r">> /\ tz = 0
    /\ Clock.utc = [y |-> 2025, m |-> 2, d |-> 14]
    /\ probe.result.startDate = [y |-> 2025, m |-> 1, d |-> 1]
    /\ probe.result.previousEndDate = [y |-> 2024, m |-> 12, d |-> 31]
    /\ probe.result.previousStartDate = [y |-> 2024, m |-> 10, d |-> 1]

\* number of days of the current and of the previous period
CurrentDays == DayNum(probe.result.endDate) - DayNum(probe.result.startDate) + 1
PreviousDays ==
    DayNum(probe.result.previousEndDate) - DayNum(probe.result.previousStartDate) + 1

\* C23: the previous period has as many days as the current period
\* [startDate, endDate], for custom with customStart <= customEnd and for
\* day, week, quarter and year on every current date.
C23_SameLength ==
    (PeriodsComputed /\ BoundsInOrder /\ probe.timeframe # <<"m","o","n","t","h">>) =>
        CurrentDays = PreviousDays

\* categories with a document of valid amount in a snapshot
ValidCategories(snapshot) ==
    { snapshot[i].category : i \in { j \in 1..Len(snapshot) : ~parseFloat(snapshot[j].amount).nan } }

\* C29: categoryComparison holds exactly one entry for each category with an
\* expense of valid amount in the current or the previous period, none
\* twice, for amounts that include 0 and totals that are 0; a category of
\* the previous period alone has currentValue 0 and percentChange -100.
C29_OneEntryPerCategory ==
    (probe.fn = "categoryComparison" /\ probe.applied) =>
        /\ { probe.result[i].name : i \in 1..Len(probe.result) }
               = ValidCategories(probe.current) \cup ValidCategories(probe.previous)
        /\ \A i, j \in 1..Len(probe.result) :
               probe.result[i].name = probe.result[j].name => i = j
        /\ \A i \in 1..Len(probe.result) :
               probe.result[i].name \notin ValidCategories(probe.current) =>
                   /\ probe.result[i].currentValue = 0
                   /\ probe.result[i].percentChange = Percent(-10000)


\* C27: in one call of callGroqApi in JSON-only mode the instruction is
\* appended to the system message once: every request of the call, first
\* attempt or retry, carries the system message with one instruction.
C27_InstructionOnce ==
    (pc \in GroqCallers /\ jsonOnly(pc)) =>
        \A i \in 1..Len(call.sent) : call.sent[i] = 1


\* C28: the lastIntent that the follow-up test of interactWithChatbot
\* compares with "query" is the one the user's previous turn stored, not the
\* intent of the current turn: when the context holds "query" from the turn
\* before and the current turn is neither a query nor an addition, the value
\* in the context when the test is made is still "query".
C28_ComparesPreviousIntent ==
    [][ ( /\ pc = "detectIntent" /\ pc' # "detectIntent"
          /\ conversationCache[req.userId].lastIntent = <<"q","u","e","r","y">>
          /\ turn'.intent \notin {<<"a","d","d","_","e","x","p","e","n","s","e">>, <<"q","u","e","r","y">>} )
        => conversationCache'[req.userId].lastIntent = <<"q","u","e","r","y">> ]_vars


\* the context entry of a user, and the documents of a user in the store
ContextOf(u) ==
    IF u \in DOMAIN conversationCache THEN conversationCache[u] ELSE NoContext
HasContext(u) == u \in DOMAIN conversationCache
OwnDocs(u) == SelectSeq(expenses, LAMBDA doc : doc.userId = u)
C26_FrameStep ==
    /\ \A b \in Users :
           b # req'.userId => HasContext(b)' = HasContext(b) /\ ContextOf(b)' = ContextOf(b)
    /\ expenses' # expenses =>
           /\ Len(expenses') = Len(expenses) + 1
           /\ SubSeq(expenses', 1, Len(expenses)) = expenses
           /\ expenses'[Len(expenses')].userId = req.userId
    /\ (pc = "get" /\ pc' = "done" /\ res'[1].message.kind = "summary") =>
           /\ OwnDocs(req.userId) # << >>
           /\ res'[1].message.count <= Len(OwnDocs(req.userId))

\* C26: a turn of user A never creates or modifies the context entry of
\* another user B, the documents its store query returns are those of
\* userId = A alone, and a record it inserts carries userId = A.
C26_Frame == [][C26_FrameStep]_vars
\* the second turn is a query of u2 while the store holds a document of u1
\* that the range and the category of the query cover: u2 is told that no
\* expenses were found, and both users have their context entry
C26_Witness ==
    /\ turns = 2 /\ pc = "done" /\ req.userId = "u2"
    /\ HasContext("u1") /\ HasContext("u2")
    /\ Len(expenses) = 1 /\ expenses[1].userId = "u1"
    /\ MatchesAnyUser(expenses[1], "u2", turn.range, turn.categoryFilter)
    /\ Len(res) = 1 /\ res[1].message.kind = "noExpenses"

AllResponded ==
    /\ probe.fn = "race"
    /\ \A t \in 1..ConcurrentTurns :
           probe.turns[t].pc = "done" /\ probe.turns[t].responses = 1
\* the Map holds one entry for the user from the first context step on, the
\* context object of every turn is that entry, and once every turn has
\* responded the entry holds the intent of the turn classified last and the
\* timestamp written by the turn that refreshed it last
C24_OneEntry ==
    probe.fn = "race" =>
        /\ \A t \in 1..ConcurrentTurns :
               /\ probe.turns[t].responses <= 1
               /\ probe.turns[t].pc # "start" =>
                      /\ DOMAIN conversationCache = {FirstUser}
                      /\ probe.turns[t].context = probe.entry
        /\ AllResponded =>
               /\ conversationCache[FirstUser].lastIntent
                      = probe.turns[probe.classifiedLast].intent
               /\ conversationCache[FirstUser].timestamp
                      = probe.turns[probe.refreshedLast].refreshed

====
